---- MODULE Spec2Model ----
(***************************************************************************)
(* A model of the zkChat relay (src/server.js): the one-time message and   *)
(* file stores, the chat invite store, the per-recipient mailboxes with    *)
(* their chat sockets, the rate limiters, the totals sink and the          *)
(* WebSocket room registry.                                                *)
(*                                                                         *)
(* The server runs on one event loop and no handler below awaits between   *)
(* its reads and its writes of a store, so every handler is one atomic     *)
(* action.  A Map is a function whose DOMAIN is the set of keys.  The      *)
(* clock `now` is Date.now() relative to the start of the process.         *)
(* `req`, `res` and `wsOut` record the event handled by the last step, the *)
(* HTTP response it wrote and the frames it sent on each socket.           *)
(***************************************************************************)
EXTENDS Integers, Sequences, FiniteSets, TLC

VARIABLES
    now,              \* Date.now()
    req,              \* the event handled by the last step
    res,              \* the HTTP response written by the last step
    wsOut,            \* socket -> frames the last step sent on it
    dbPool,           \* TRUE when the totals sink is configured
    totals,           \* the row of zkchat_metrics_totals
    rateBuckets,      \* ip -> bucket (otm family)
    fileRateBuckets,  \* ip -> bucket (file family)
    chatRateBuckets,  \* ip -> bucket (chat family)
    otmStore,         \* id -> [ciphertext, createdAt]
    otmIssued,        \* ids generateOtmId has returned so far
    otmLog,           \* history: id -> [posted, reads]
    fileStore,        \* id -> [ciphertext, createdAt]
    fileIssued,       \* ids generateFileId has returned so far
    fileLog,          \* history: id -> [posted, reads]
    chatInviteStore,  \* inviteId -> entry
    inviteLog,        \* history: inviteId -> claims answered 200 since creation
    chatMessageStore, \* fingerprint -> sequence of messages
    chatLog,          \* history: fingerprint -> message ids accepted so far
    chatConnections,  \* fingerprint -> socket
    sockets,          \* socket -> [readyState, kind, key]
    rooms,            \* roomId -> [clients, timer]
    timers,           \* pending destruction timeouts: roomId -> the time it is due
    burnedRooms       \* set of roomIds

vars == <<now, req, res, wsOut, dbPool, totals, rateBuckets, fileRateBuckets,
          chatRateBuckets, otmStore, otmIssued, otmLog, fileStore, fileIssued,
          fileLog, chatInviteStore, inviteLog, chatMessageStore, chatLog,
          chatConnections, sockets, rooms, timers, burnedRooms>>

otmVars == <<otmStore, otmIssued, otmLog, rateBuckets>>
fileVars == <<fileStore, fileIssued, fileLog, fileRateBuckets>>
inviteVars == <<chatInviteStore, inviteLog>>
chatVars == <<chatMessageStore, chatLog, chatConnections>>
roomVars == <<rooms, timers, burnedRooms>>

(***************************************************************************)
(* Bounds of the exploration.                                              *)
(***************************************************************************)
MaxId == 2          \* size of the id space generateOtmId/generateFileId draw from
MaxTicks == 1       \* the clock advances by at most this many TTLs
RateSlack == 2      \* requests explored at the start and at the end of a window
SendSlack == 3      \* messages explored at the start of a window
MaxChatSockets == 2 \* connections explored together with the message store

IdSpace == 1..MaxId
IPs == {"ip1"}
Ciphertexts == {"A", "B"}

(***************************************************************************)
(* Program constants.                                                      *)
(***************************************************************************)
OTM_TTL_MS == 7 * 24 * 60 * 60 * 1000
FILE_TTL_MS == 24 * 60 * 60 * 1000
CHAT_INVITE_TTL_MS == 24 * 60 * 60 * 1000
CHAT_MESSAGE_TTL_MS == 7 * 24 * 60 * 60 * 1000
RATE_WINDOW_MS == 60 * 1000
MAX_POST_OTM_PER_WINDOW == 30
MAX_GET_OTM_PER_WINDOW == 60
FILE_RATE_WINDOW_MS == 60 * 1000
MAX_POST_FILE_PER_WINDOW == 10
MAX_GET_FILE_PER_WINDOW == 30
CHAT_RATE_WINDOW_MS == 60 * 1000
MAX_CHAT_INVITE_PER_WINDOW == 10
MAX_CHAT_MESSAGE_PER_WINDOW == 60

(***************************************************************************)
(* Maps.                                                                   *)
(***************************************************************************)
EmptyMap == <<>>
MapSet(m, k, v) == [x \in DOMAIN m \cup {k} |-> IF x = k THEN v ELSE m[x]]
MapDelete(m, k) == [x \in DOMAIN m \ {k} |-> m[x]]

\* A value a body's JSON does not carry (undefined in the handler).
Undefined == "undefined"
\* JavaScript's !x for the values bodies carry here.
Falsy(x) == x \in {Undefined, ""}

NoReq == [op |-> "none"]
NoRes == [status |-> 0]
NoFrames == [s \in {} |-> <<>>]

RateLimited == [status |-> 429, body |-> [error |-> "Rate limit exceeded"]]
InvalidJson == [status |-> 400, body |-> [error |-> "Invalid JSON"]]
Used == [status |-> 404, body |-> [used |-> TRUE]]

(***************************************************************************)
(* 2. Metrics.                                                             *)
(***************************************************************************)
MetricFields == {"rooms_created", "otm_created", "files_created",
                 "chat_invites_created", "chat_messages_sent"}

\* An increment that counts every event twice.
incrementMetricTwice(field, queryOk) ==
    IF dbPool /\ field \in MetricFields /\ queryOk
    THEN [totals EXCEPT ![field] = @ + 2]
    ELSE totals

\* incrementMetric: a no-op without a pool; the UPDATE is fire-and-forget and
\* `queryOk` is whether the sink applied it (a failure is only logged).
incrementMetric(field, queryOk) ==
    IF dbPool /\ field \in MetricFields /\ queryOk
    THEN [totals EXCEPT ![field] = @ + 1]
    ELSE totals

(***************************************************************************)
(* 5. Rate limiters.  Each returns the new bucket map and the verdict.     *)
(***************************************************************************)
\* A limiter whose thresholds are one request too low.
checkRateLimitEarly(ip, type) ==
    LET stale == ip \notin DOMAIN rateBuckets
                 \/ now - rateBuckets[ip].windowStart > RATE_WINDOW_MS
        b0 == IF stale
              THEN [windowStart |-> now, postCount |-> 0, getCount |-> 0]
              ELSE rateBuckets[ip]
        b1 == IF type = "post-otm" THEN [b0 EXCEPT !.postCount = @ + 1]
              ELSE [b0 EXCEPT !.getCount = @ + 1]
        over == IF type = "post-otm"
                THEN b1.postCount >= MAX_POST_OTM_PER_WINDOW
                ELSE b1.getCount >= MAX_GET_OTM_PER_WINDOW
    IN  [buckets |-> MapSet(rateBuckets, ip, b1), ok |-> ~over]

\* checkRateLimit of the OTM routes.
checkRateLimit(ip, type) ==
    LET stale == ip \notin DOMAIN rateBuckets
                 \/ now - rateBuckets[ip].windowStart > RATE_WINDOW_MS
        b0 == IF stale
              THEN [windowStart |-> now, postCount |-> 0, getCount |-> 0]
              ELSE rateBuckets[ip]
        b1 == IF type = "post-otm" THEN [b0 EXCEPT !.postCount = @ + 1] ELSE b0
        postOver == type = "post-otm" /\ b1.postCount > MAX_POST_OTM_PER_WINDOW
        b2 == IF ~postOver /\ type = "get-otm"
              THEN [b1 EXCEPT !.getCount = @ + 1] ELSE b1
        getOver == ~postOver /\ type = "get-otm"
                   /\ b2.getCount > MAX_GET_OTM_PER_WINDOW
    IN  [buckets |-> MapSet(rateBuckets, ip, b2), ok |-> ~postOver /\ ~getOver]

checkFileRateLimit(ip, type) ==
    LET stale == ip \notin DOMAIN fileRateBuckets
                 \/ now - fileRateBuckets[ip].windowStart > FILE_RATE_WINDOW_MS
        b0 == IF stale
              THEN [windowStart |-> now, uploadCount |-> 0, downloadCount |-> 0]
              ELSE fileRateBuckets[ip]
        b1 == IF type = "upload" THEN [b0 EXCEPT !.uploadCount = @ + 1] ELSE b0
        upOver == type = "upload" /\ b1.uploadCount > MAX_POST_FILE_PER_WINDOW
        b2 == IF ~upOver /\ type = "download"
              THEN [b1 EXCEPT !.downloadCount = @ + 1] ELSE b1
        downOver == ~upOver /\ type = "download"
                    /\ b2.downloadCount > MAX_GET_FILE_PER_WINDOW
    IN  [buckets |-> MapSet(fileRateBuckets, ip, b2), ok |-> ~upOver /\ ~downOver]

\* A chat limiter that keeps one bucket for all clients.
checkChatRateLimitShared(ip, type) ==
    LET key == "ip1"
        stale == key \notin DOMAIN chatRateBuckets
                 \/ now - chatRateBuckets[key].windowStart > CHAT_RATE_WINDOW_MS
        b0 == IF stale
              THEN [windowStart |-> now, inviteCount |-> 0, messageCount |-> 0]
              ELSE chatRateBuckets[key]
        b1 == IF type = "invite" THEN [b0 EXCEPT !.inviteCount = @ + 1]
              ELSE [b0 EXCEPT !.messageCount = @ + 1]
        over == IF type = "invite"
                THEN b1.inviteCount > MAX_CHAT_INVITE_PER_WINDOW
                ELSE b1.messageCount > MAX_CHAT_MESSAGE_PER_WINDOW
    IN  [buckets |-> MapSet(chatRateBuckets, key, b1), ok |-> ~over]

checkChatRateLimit(ip, type) ==
    LET stale == ip \notin DOMAIN chatRateBuckets
                 \/ now - chatRateBuckets[ip].windowStart > CHAT_RATE_WINDOW_MS
        b0 == IF stale
              THEN [windowStart |-> now, inviteCount |-> 0, messageCount |-> 0]
              ELSE chatRateBuckets[ip]
        b1 == IF type = "invite" THEN [b0 EXCEPT !.inviteCount = @ + 1] ELSE b0
        invOver == type = "invite" /\ b1.inviteCount > MAX_CHAT_INVITE_PER_WINDOW
        b2 == IF ~invOver /\ type = "message"
              THEN [b1 EXCEPT !.messageCount = @ + 1] ELSE b1
        msgOver == ~invOver /\ type = "message"
                   /\ b2.messageCount > MAX_CHAT_MESSAGE_PER_WINDOW
    IN  [buckets |-> MapSet(chatRateBuckets, ip, b2), ok |-> ~invOver /\ ~msgOver]

\* The exploration follows a window for its first RateSlack requests of a
\* kind and from RateSlack requests before the threshold until the first
\* rejection; `count` is the counter the request would find.
Explored(count, max) ==
    count < RateSlack \/ (count >= max - RateSlack /\ count <= max)

Counter(buckets, ip, window, field) ==
    IF ip \notin DOMAIN buckets \/ now - buckets[ip].windowStart > window
    THEN 0 ELSE buckets[ip][field]

\* The requests of each kind the exploration follows.
ExploredPostOtm(ip) ==
    Explored(Counter(rateBuckets, ip, RATE_WINDOW_MS, "postCount"),
             MAX_POST_OTM_PER_WINDOW)
ExploredGetOtm(ip) ==
    Explored(Counter(rateBuckets, ip, RATE_WINDOW_MS, "getCount"),
             MAX_GET_OTM_PER_WINDOW)
ExploredUpload(ip) ==
    Explored(Counter(fileRateBuckets, ip, FILE_RATE_WINDOW_MS, "uploadCount"),
             MAX_POST_FILE_PER_WINDOW)
ExploredDownload(ip) ==
    Explored(Counter(fileRateBuckets, ip, FILE_RATE_WINDOW_MS, "downloadCount"),
             MAX_GET_FILE_PER_WINDOW)
ExploredInvite(ip) ==
    Explored(Counter(chatRateBuckets, ip, CHAT_RATE_WINDOW_MS, "inviteCount"),
             MAX_CHAT_INVITE_PER_WINDOW)
ExploredSends(ip) ==
    LET count == Counter(chatRateBuckets, ip, CHAT_RATE_WINDOW_MS, "messageCount")
    IN  count < SendSlack \/ Explored(count, MAX_CHAT_MESSAGE_PER_WINDOW)

(***************************************************************************)
(* The clock.                                                              *)
(***************************************************************************)
\* The instants the clock visits: multiples of a TTL plus a few milliseconds,
\* so that an entry created at a visited instant is seen at exactly its TTL
\* and one millisecond past it.
Instants(ttl) == {k * ttl + j : k \in 0..MaxTicks, j \in {0, 1}}

Advance(instants) ==
    /\ \E t \in instants : t > now /\ now' = t
    /\ req' = [op |-> "tick"]
    /\ res' = NoRes
    /\ wsOut' = NoFrames

(***************************************************************************)
(* 3. One-time message store.                                              *)
(***************************************************************************)
OtmBodies == [json : {TRUE}, ciphertext : Ciphertexts \cup {"", Undefined}]
             \cup {[json |-> FALSE, ciphertext |-> Undefined]}

\* generateOtmId: 128 random bits, modelled as an id never returned before
\* (the source does not defend against a collision and neither does the model).
generateOtmId == {i \in IdSpace \ otmIssued : \A j \in IdSpace \ otmIssued : i <= j}

\* POST /otm
OtmCreate(ip, body, queryOk) ==
    LET rl == checkRateLimit(ip, "post-otm") IN
    /\ req' = [op |-> "POST /otm", ip |-> ip]
    /\ rateBuckets' = rl.buckets
    /\ wsOut' = NoFrames
    /\ IF ~rl.ok
       THEN /\ res' = RateLimited
            /\ UNCHANGED <<otmStore, otmIssued, otmLog, totals>>
       ELSE IF ~body.json
       THEN /\ res' = InvalidJson
            /\ UNCHANGED <<otmStore, otmIssued, otmLog, totals>>
       ELSE IF Falsy(body.ciphertext)
       THEN /\ res' = [status |-> 400, body |-> [error |-> "Missing ciphertext"]]
            /\ UNCHANGED <<otmStore, otmIssued, otmLog, totals>>
       ELSE \E id \in generateOtmId :
            /\ otmStore' = MapSet(otmStore, id,
                   [ciphertext |-> body.ciphertext, createdAt |-> now])
            /\ otmIssued' = otmIssued \cup {id}
            /\ otmLog' = MapSet(otmLog, id,
                   [posted |-> body.ciphertext, reads |-> 0])
            /\ totals' = incrementMetric("otm_created", queryOk)
            /\ res' = [status |-> 201, body |-> [id |-> id]]
    /\ UNCHANGED <<now, dbPool, fileRateBuckets, chatRateBuckets, fileVars,
                   inviteVars, chatVars, sockets, roomVars>>

\* OtmTake without the delete on the successful path.
OtmTakeKeep(id) ==
    IF id \notin DOMAIN otmStore
    THEN [store |-> otmStore, res |-> Used]
    ELSE IF now - otmStore[id].createdAt > OTM_TTL_MS
    THEN [store |-> MapDelete(otmStore, id), res |-> Used]
    ELSE [store |-> otmStore,
          res |-> [status |-> 200,
                   body |-> [ciphertext |-> otmStore[id].ciphertext]]]

\* OtmTake without the expiry test.
OtmTakeStale(id) ==
    IF id \notin DOMAIN otmStore
    THEN [store |-> otmStore, res |-> Used]
    ELSE [store |-> MapDelete(otmStore, id),
          res |-> [status |-> 200,
                   body |-> [ciphertext |-> otmStore[id].ciphertext]]]

\* The lookup and one-time delete of GET /otm/{id}, after the rate check:
\* the new store and the response.
OtmTake(id) ==
    IF id \notin DOMAIN otmStore
    THEN [store |-> otmStore, res |-> Used]
    ELSE IF now - otmStore[id].createdAt > OTM_TTL_MS
    THEN [store |-> MapDelete(otmStore, id), res |-> Used]
    ELSE [store |-> MapDelete(otmStore, id),
          res |-> [status |-> 200,
                   body |-> [ciphertext |-> otmStore[id].ciphertext]]]

\* GET /otm/{id}
OtmRead(ip, id) ==
    LET rl == checkRateLimit(ip, "get-otm")
        t == OtmTake(id) IN
    /\ req' = [op |-> "GET /otm/{id}", id |-> id, ip |-> ip]
    /\ rateBuckets' = rl.buckets
    /\ wsOut' = NoFrames
    /\ IF ~rl.ok
       THEN /\ res' = RateLimited
            /\ UNCHANGED <<otmStore, otmLog>>
       ELSE /\ otmStore' = t.store
            /\ res' = t.res
            /\ otmLog' = IF t.res.status = 200
                         THEN [otmLog EXCEPT ![id].reads = @ + 1]
                         ELSE otmLog
    /\ UNCHANGED <<now, dbPool, totals, otmIssued, fileRateBuckets,
                   chatRateBuckets, fileVars, inviteVars, chatVars, sockets,
                   roomVars>>

\* The 60 s sweeper of the OTM store.
OtmSweep ==
    /\ otmStore' = [id \in {i \in DOMAIN otmStore :
                              ~(now - otmStore[i].createdAt > OTM_TTL_MS)}
                      |-> otmStore[id]]
    /\ req' = [op |-> "sweep otm"]
    /\ res' = NoRes
    /\ wsOut' = NoFrames
    /\ UNCHANGED <<now, dbPool, totals, rateBuckets, otmIssued, otmLog,
                   fileRateBuckets, chatRateBuckets, fileVars, inviteVars,
                   chatVars, sockets, roomVars>>

OtmTick ==
    /\ Advance(Instants(OTM_TTL_MS))
    /\ UNCHANGED <<dbPool, totals, otmVars, fileRateBuckets, chatRateBuckets,
                   fileVars, inviteVars, chatVars, sockets, roomVars>>

(***************************************************************************)
(* Initial states.  Every store is empty after construction.  A rate       *)
(* bucket is either absent or the one a client has after a burst of        *)
(* requests that touch no store (GETs of unknown ids, POSTs of invalid     *)
(* JSON) in the first millisecond.                                         *)
(***************************************************************************)
OtmLoaded ==
    [ip \in IPs |-> [windowStart |-> 0,
                     postCount |-> MAX_POST_OTM_PER_WINDOW - RateSlack,
                     getCount |-> MAX_GET_OTM_PER_WINDOW - RateSlack]]

InitOtm ==
    /\ now = 0 /\ req = NoReq /\ res = NoRes /\ wsOut = NoFrames
    /\ dbPool = TRUE
    /\ totals = [f \in MetricFields |-> 0]
    /\ rateBuckets \in {EmptyMap, OtmLoaded}
    /\ fileRateBuckets = EmptyMap /\ chatRateBuckets = EmptyMap
    /\ otmStore = EmptyMap /\ otmIssued = {} /\ otmLog = EmptyMap
    /\ fileStore = EmptyMap /\ fileIssued = {} /\ fileLog = EmptyMap
    /\ chatInviteStore = EmptyMap /\ inviteLog = EmptyMap
    /\ chatMessageStore = EmptyMap /\ chatLog = EmptyMap
    /\ chatConnections = EmptyMap /\ sockets = EmptyMap
    /\ rooms = EmptyMap /\ timers = EmptyMap /\ burnedRooms = {}

NextOtm ==
    \/ \E ip \in IPs, body \in OtmBodies :
          ExploredPostOtm(ip) /\ OtmCreate(ip, body, TRUE)
    \/ \E ip \in IPs, id \in IdSpace : ExploredGetOtm(ip) /\ OtmRead(ip, id)
    \/ OtmSweep
    \/ OtmTick

SpecOtm == InitOtm /\ [][NextOtm]_vars

(***************************************************************************)
(* 4. File drop store.                                                     *)
(***************************************************************************)
MAX_SIZE == 12 * 1024 * 1024

\* An upload arrives as a sequence of chunks, each a sequence of bytes.
FileBodies == { <<>>, << <<0, 1>>, <<2>> >>, << <<2>>, <<0, 1>> >> }

RECURSIVE BufferConcatDropLast(_)
\* Buffer.concat that loses the last chunk.
BufferConcatDropLast(chunks) ==
    IF Len(chunks) <= 1 THEN <<>>
    ELSE Head(chunks) \o BufferConcatDropLast(Tail(chunks))

RECURSIVE BufferConcat(_)
\* Buffer.concat(chunks)
BufferConcat(chunks) ==
    IF chunks = <<>> THEN <<>>
    ELSE Head(chunks) \o BufferConcat(Tail(chunks))

\* The running total of the data handler after each chunk exceeds MAX_SIZE at
\* some chunk: the handler destroys the request and "end" never fires.
FileOverrun(chunks) ==
    \E n \in 1..Len(chunks) : Len(BufferConcat(SubSeq(chunks, 1, n))) > MAX_SIZE

generateFileId == {i \in IdSpace \ fileIssued : \A j \in IdSpace \ fileIssued : i <= j}

Destroyed == [status |-> 0, destroyed |-> TRUE]

\* POST /file
FileUpload(ip, chunks, queryOk) ==
    LET rl == checkFileRateLimit(ip, "upload") IN
    /\ req' = [op |-> "POST /file", ip |-> ip]
    /\ fileRateBuckets' = rl.buckets
    /\ wsOut' = NoFrames
    /\ IF ~rl.ok
       THEN /\ res' = RateLimited
            /\ UNCHANGED <<fileStore, fileIssued, fileLog, totals>>
       ELSE IF FileOverrun(chunks)
       THEN /\ res' = Destroyed
            /\ UNCHANGED <<fileStore, fileIssued, fileLog, totals>>
       ELSE \E id \in generateFileId :
            /\ fileStore' = MapSet(fileStore, id,
                   [ciphertext |-> BufferConcat(chunks), createdAt |-> now])
            /\ fileIssued' = fileIssued \cup {id}
            /\ fileLog' = MapSet(fileLog, id, [posted |-> chunks, reads |-> 0])
            /\ totals' = incrementMetric("files_created", queryOk)
            /\ res' = [status |-> 201, body |-> [id |-> id]]
    /\ UNCHANGED <<now, dbPool, rateBuckets, chatRateBuckets, otmStore,
                   otmIssued, otmLog, inviteVars, chatVars, sockets, roomVars>>

\* FileTake without the delete on the successful path.
FileTakeKeep(id) ==
    IF id \notin DOMAIN fileStore
    THEN [store |-> fileStore, res |-> Used]
    ELSE IF now - fileStore[id].createdAt > FILE_TTL_MS
    THEN [store |-> MapDelete(fileStore, id), res |-> Used]
    ELSE [store |-> fileStore,
          res |-> [status |-> 200, type |-> "application/octet-stream",
                   body |-> fileStore[id].ciphertext]]

\* A download that tells an expired file from a missing one.
FileTakeTelling(id) ==
    IF id \notin DOMAIN fileStore
    THEN [store |-> fileStore, res |-> Used]
    ELSE IF now - fileStore[id].createdAt > FILE_TTL_MS
    THEN [store |-> MapDelete(fileStore, id),
          res |-> [status |-> 410, body |-> [expired |-> TRUE]]]
    ELSE [store |-> MapDelete(fileStore, id),
          res |-> [status |-> 200, type |-> "application/octet-stream",
                   body |-> fileStore[id].ciphertext]]

\* The lookup and one-time delete of GET /file/{id}, after the rate check.
FileTake(id) ==
    IF id \notin DOMAIN fileStore
    THEN [store |-> fileStore, res |-> Used]
    ELSE IF now - fileStore[id].createdAt > FILE_TTL_MS
    THEN [store |-> MapDelete(fileStore, id), res |-> Used]
    ELSE [store |-> MapDelete(fileStore, id),
          res |-> [status |-> 200, type |-> "application/octet-stream",
                   body |-> fileStore[id].ciphertext]]

\* GET /file/{id}
FileDownload(ip, id) ==
    LET rl == checkFileRateLimit(ip, "download")
        t == FileTake(id) IN
    /\ req' = [op |-> "GET /file/{id}", id |-> id, ip |-> ip]
    /\ fileRateBuckets' = rl.buckets
    /\ wsOut' = NoFrames
    /\ IF ~rl.ok
       THEN /\ res' = RateLimited
            /\ UNCHANGED <<fileStore, fileLog>>
       ELSE /\ fileStore' = t.store
            /\ res' = t.res
            /\ fileLog' = IF t.res.status = 200
                          THEN [fileLog EXCEPT ![id].reads = @ + 1]
                          ELSE fileLog
    /\ UNCHANGED <<now, dbPool, totals, fileIssued, rateBuckets,
                   chatRateBuckets, otmStore, otmIssued, otmLog, inviteVars,
                   chatVars, sockets, roomVars>>

\* The 60 s sweeper of the file store.
FileSweep ==
    /\ fileStore' = [id \in {i \in DOMAIN fileStore :
                               ~(now - fileStore[i].createdAt > FILE_TTL_MS)}
                       |-> fileStore[id]]
    /\ req' = [op |-> "sweep file"]
    /\ res' = NoRes
    /\ wsOut' = NoFrames
    /\ UNCHANGED <<now, dbPool, totals, fileRateBuckets, fileIssued, fileLog,
                   rateBuckets, chatRateBuckets, otmStore, otmIssued, otmLog,
                   inviteVars, chatVars, sockets, roomVars>>

FileTick ==
    /\ Advance(Instants(FILE_TTL_MS))
    /\ UNCHANGED <<dbPool, totals, otmVars, fileVars, chatRateBuckets,
                   inviteVars, chatVars, sockets, roomVars>>

FileLoaded ==
    [ip \in IPs |-> [windowStart |-> 0,
                     uploadCount |-> MAX_POST_FILE_PER_WINDOW - RateSlack,
                     downloadCount |-> MAX_GET_FILE_PER_WINDOW - RateSlack]]

InitFile ==
    /\ now = 0 /\ req = NoReq /\ res = NoRes /\ wsOut = NoFrames
    /\ dbPool = TRUE
    /\ totals = [f \in MetricFields |-> 0]
    /\ fileRateBuckets \in {EmptyMap, FileLoaded}
    /\ rateBuckets = EmptyMap /\ chatRateBuckets = EmptyMap
    /\ otmStore = EmptyMap /\ otmIssued = {} /\ otmLog = EmptyMap
    /\ fileStore = EmptyMap /\ fileIssued = {} /\ fileLog = EmptyMap
    /\ chatInviteStore = EmptyMap /\ inviteLog = EmptyMap
    /\ chatMessageStore = EmptyMap /\ chatLog = EmptyMap
    /\ chatConnections = EmptyMap /\ sockets = EmptyMap
    /\ rooms = EmptyMap /\ timers = EmptyMap /\ burnedRooms = {}

NextFile ==
    \/ \E ip \in IPs, chunks \in FileBodies :
          ExploredUpload(ip) /\ FileUpload(ip, chunks, TRUE)
    \/ \E ip \in IPs, id \in IdSpace :
          ExploredDownload(ip) /\ FileDownload(ip, id)
    \/ FileSweep
    \/ FileTick

SpecFile == InitFile /\ [][NextFile]_vars

\* The bytes of an upload, one after the other.
RECURSIVE Flatten(_)
Flatten(chunks) ==
    IF Len(chunks) = 0 THEN <<>>
    ELSE [i \in 1..(Len(chunks[1]) + Len(Flatten(Tail(chunks)))) |->
            IF i <= Len(chunks[1]) THEN chunks[1][i]
            ELSE Flatten(Tail(chunks))[i - Len(chunks[1])]]

(***************************************************************************)
(* 4b. Chat invite store.                                                  *)
(***************************************************************************)
InviteIds == {"inv1", "inv2"}
CreatorBundles == {"K1", "K2"}
ClaimerBundles == {"C1", "C2"}
\* expiresAt of a create body; 0 stands for an absent (or zero) field, which
\* the handler replaces by the default.
ExpiresAtInputs == {0, 1, 2 * CHAT_INVITE_TTL_MS}

\* Creates of inv1 with every bundle and expiry, and of inv2 as a second
\* entry beside it.
InviteBodies ==
    [json : {TRUE}, inviteId : {"inv1"}, publicKeyBundle : CreatorBundles,
     expiresAt : ExpiresAtInputs]
    \cup {[json |-> TRUE, inviteId |-> "inv2", publicKeyBundle |-> "K2",
           expiresAt |-> 0],
          [json |-> TRUE, inviteId |-> Undefined, publicKeyBundle |-> "K1",
           expiresAt |-> 0],
          [json |-> TRUE, inviteId |-> "inv1", publicKeyBundle |-> Undefined,
           expiresAt |-> 0],
          [json |-> FALSE, inviteId |-> Undefined, publicKeyBundle |-> Undefined,
           expiresAt |-> 0]}

ClaimBodies ==
    [json : {TRUE}, claimerBundle : ClaimerBundles \cup {Undefined}]
    \cup {[json |-> FALSE, claimerBundle |-> Undefined]}

\* A create handler without the test for an existing id.
InviteCreateOver(ip, body, queryOk) ==
    LET rl == checkChatRateLimit(ip, "invite") IN
    /\ req' = [op |-> "POST /chat/invite", id |-> body.inviteId, ip |-> ip]
    /\ chatRateBuckets' = rl.buckets
    /\ wsOut' = NoFrames
    /\ IF ~rl.ok
       THEN /\ res' = RateLimited
            /\ UNCHANGED <<chatInviteStore, inviteLog, totals>>
       ELSE IF ~body.json
       THEN /\ res' = InvalidJson
            /\ UNCHANGED <<chatInviteStore, inviteLog, totals>>
       ELSE IF Falsy(body.inviteId) \/ Falsy(body.publicKeyBundle)
       THEN /\ res' = [status |-> 400,
                       body |-> [error |-> "Missing inviteId or publicKeyBundle"]]
            /\ UNCHANGED <<chatInviteStore, inviteLog, totals>>
       ELSE /\ chatInviteStore' = MapSet(chatInviteStore, body.inviteId,
                   [publicKeyBundle |-> body.publicKeyBundle,
                    expiresAt |-> IF body.expiresAt # 0 THEN body.expiresAt
                                  ELSE now + CHAT_INVITE_TTL_MS,
                    createdAt |-> now,
                    claimed |-> FALSE,
                    claimerBundle |-> "null"])
            /\ inviteLog' = MapSet(inviteLog, body.inviteId, 0)
            /\ totals' = incrementMetric("chat_invites_created", queryOk)
            /\ res' = [status |-> 201,
                       body |-> [success |-> TRUE, inviteId |-> body.inviteId]]
    /\ UNCHANGED <<now, dbPool, rateBuckets, fileRateBuckets, otmStore,
                   otmIssued, otmLog, fileStore, fileIssued, fileLog, chatVars,
                   sockets, roomVars>>

\* A test that takes an entry past its expiresAt for absent.
InviteExistsUnexpired(inviteId) ==
    /\ inviteId \in DOMAIN chatInviteStore
    /\ ~(now > chatInviteStore[inviteId].expiresAt)

\* chatInviteStore.has(inviteId)
InviteExists(inviteId) == inviteId \in DOMAIN chatInviteStore

\* POST /chat/invite
InviteCreate(ip, body, queryOk) ==
    LET rl == checkChatRateLimit(ip, "invite") IN
    /\ req' = [op |-> "POST /chat/invite", id |-> body.inviteId, ip |-> ip]
    /\ chatRateBuckets' = rl.buckets
    /\ wsOut' = NoFrames
    /\ IF ~rl.ok
       THEN /\ res' = RateLimited
            /\ UNCHANGED <<chatInviteStore, inviteLog, totals>>
       ELSE IF ~body.json
       THEN /\ res' = InvalidJson
            /\ UNCHANGED <<chatInviteStore, inviteLog, totals>>
       ELSE IF Falsy(body.inviteId) \/ Falsy(body.publicKeyBundle)
       THEN /\ res' = [status |-> 400,
                       body |-> [error |-> "Missing inviteId or publicKeyBundle"]]
            /\ UNCHANGED <<chatInviteStore, inviteLog, totals>>
       ELSE IF InviteExists(body.inviteId)
       THEN /\ res' = [status |-> 409,
                       body |-> [error |-> "Invite ID already exists"]]
            /\ UNCHANGED <<chatInviteStore, inviteLog, totals>>
       ELSE /\ chatInviteStore' = MapSet(chatInviteStore, body.inviteId,
                   [publicKeyBundle |-> body.publicKeyBundle,
                    expiresAt |-> IF body.expiresAt # 0 THEN body.expiresAt
                                  ELSE now + CHAT_INVITE_TTL_MS,
                    createdAt |-> now,
                    claimed |-> FALSE,
                    claimerBundle |-> "null"])
            /\ inviteLog' = MapSet(inviteLog, body.inviteId, 0)
            /\ totals' = incrementMetric("chat_invites_created", queryOk)
            /\ res' = [status |-> 201,
                       body |-> [success |-> TRUE, inviteId |-> body.inviteId]]
    /\ UNCHANGED <<now, dbPool, rateBuckets, fileRateBuckets, otmStore,
                   otmIssued, otmLog, fileStore, fileIssued, fileLog, chatVars,
                   sockets, roomVars>>

NotFound == [status |-> 404, body |-> [error |-> "Invite not found"]]
Expired == [status |-> 404, body |-> [error |-> "Invite expired"]]

\* GET /chat/invite/{id}
InviteGet(inviteId) ==
    /\ req' = [op |-> "GET /chat/invite/{id}", id |-> inviteId]
    /\ wsOut' = NoFrames
    /\ IF inviteId \notin DOMAIN chatInviteStore
       THEN /\ res' = NotFound
            /\ UNCHANGED chatInviteStore
       ELSE IF now > chatInviteStore[inviteId].expiresAt
       THEN /\ chatInviteStore' = MapDelete(chatInviteStore, inviteId)
            /\ res' = Expired
       ELSE /\ res' = [status |-> 200,
                       body |-> [inviteId |-> inviteId,
                                 publicKeyBundle |->
                                     chatInviteStore[inviteId].publicKeyBundle,
                                 claimed |-> chatInviteStore[inviteId].claimed,
                                 claimerBundle |->
                                     chatInviteStore[inviteId].claimerBundle]]
            /\ UNCHANGED chatInviteStore
    /\ UNCHANGED <<now, dbPool, totals, rateBuckets, fileRateBuckets,
                   chatRateBuckets, otmStore, otmIssued, otmLog, fileStore,
                   fileIssued, fileLog, inviteLog, chatVars, sockets, roomVars>>

\* The claim transition without the already-claimed test.
InviteClaimEntryAgain(inviteId, claimerBundle) ==
    IF inviteId \notin DOMAIN chatInviteStore
    THEN [store |-> chatInviteStore, res |-> NotFound]
    ELSE IF now > chatInviteStore[inviteId].expiresAt
    THEN [store |-> MapDelete(chatInviteStore, inviteId), res |-> Expired]
    ELSE [store |-> [chatInviteStore EXCEPT ![inviteId].claimed = TRUE,
                                            ![inviteId].claimerBundle = claimerBundle],
          res |-> [status |-> 200,
                   body |-> [success |-> TRUE,
                             creatorBundle |->
                                 chatInviteStore[inviteId].publicKeyBundle]]]

\* A claim transition that marks the entry claimed and stores no bundle.
InviteClaimEntryBlank(inviteId, claimerBundle) ==
    IF inviteId \notin DOMAIN chatInviteStore
    THEN [store |-> chatInviteStore, res |-> NotFound]
    ELSE IF now > chatInviteStore[inviteId].expiresAt
    THEN [store |-> MapDelete(chatInviteStore, inviteId), res |-> Expired]
    ELSE IF chatInviteStore[inviteId].claimed
    THEN [store |-> chatInviteStore,
          res |-> [status |-> 409,
                   body |-> [error |-> "Invite already claimed"]]]
    ELSE [store |-> [chatInviteStore EXCEPT ![inviteId].claimed = TRUE],
          res |-> [status |-> 200,
                   body |-> [success |-> TRUE,
                             creatorBundle |->
                                 chatInviteStore[inviteId].publicKeyBundle]]]

\* The lookup, expiry test and claim transition of the claim handler, once
\* the body has been parsed: the new store and the response.
InviteClaimEntry(inviteId, claimerBundle) ==
    IF inviteId \notin DOMAIN chatInviteStore
    THEN [store |-> chatInviteStore, res |-> NotFound]
    ELSE IF now > chatInviteStore[inviteId].expiresAt
    THEN [store |-> MapDelete(chatInviteStore, inviteId), res |-> Expired]
    ELSE IF chatInviteStore[inviteId].claimed
    THEN [store |-> chatInviteStore,
          res |-> [status |-> 409,
                   body |-> [error |-> "Invite already claimed"]]]
    ELSE [store |-> [chatInviteStore EXCEPT ![inviteId].claimed = TRUE,
                                            ![inviteId].claimerBundle = claimerBundle],
          res |-> [status |-> 200,
                   body |-> [success |-> TRUE,
                             creatorBundle |->
                                 chatInviteStore[inviteId].publicKeyBundle]]]

\* POST /chat/invite/{id}/claim
InviteClaim(ip, inviteId, body) ==
    LET rl == checkChatRateLimit(ip, "invite")
        t == InviteClaimEntry(inviteId, body.claimerBundle) IN
    /\ req' = [op |-> "POST /chat/invite/{id}/claim", id |-> inviteId, ip |-> ip]
    /\ chatRateBuckets' = rl.buckets
    /\ wsOut' = NoFrames
    /\ IF ~rl.ok
       THEN /\ res' = RateLimited
            /\ UNCHANGED <<chatInviteStore, inviteLog>>
       ELSE IF ~body.json
       THEN /\ res' = InvalidJson
            /\ UNCHANGED <<chatInviteStore, inviteLog>>
       ELSE IF Falsy(body.claimerBundle)
       THEN /\ res' = [status |-> 400, body |-> [error |-> "Missing claimerBundle"]]
            /\ UNCHANGED <<chatInviteStore, inviteLog>>
       ELSE /\ chatInviteStore' = t.store
            /\ res' = t.res
            /\ inviteLog' = IF t.res.status = 200
                            THEN [inviteLog EXCEPT ![inviteId] = @ + 1]
                            ELSE inviteLog
    /\ UNCHANGED <<now, dbPool, totals, rateBuckets, fileRateBuckets, otmStore,
                   otmIssued, otmLog, fileStore, fileIssued, fileLog, chatVars,
                   sockets, roomVars>>

\* The 60 s sweeper of the invite store.
InviteSweep ==
    /\ chatInviteStore' =
           [id \in {i \in DOMAIN chatInviteStore :
                      ~(now - chatInviteStore[i].createdAt > CHAT_INVITE_TTL_MS)}
              |-> chatInviteStore[id]]
    /\ req' = [op |-> "sweep invite"]
    /\ res' = NoRes
    /\ wsOut' = NoFrames
    /\ UNCHANGED <<now, dbPool, totals, rateBuckets, fileRateBuckets,
                   chatRateBuckets, otmStore, otmIssued, otmLog, fileStore,
                   fileIssued, fileLog, inviteLog, chatVars, sockets, roomVars>>

InviteTick ==
    /\ Advance(Instants(CHAT_INVITE_TTL_MS))
    /\ UNCHANGED <<dbPool, totals, otmVars, fileVars, chatRateBuckets,
                   inviteVars, chatVars, sockets, roomVars>>

InviteLoaded ==
    [ip \in IPs |-> [windowStart |-> 0,
                     inviteCount |-> MAX_CHAT_INVITE_PER_WINDOW - RateSlack,
                     messageCount |-> 0]]

InitInvite ==
    /\ now = 0 /\ req = NoReq /\ res = NoRes /\ wsOut = NoFrames
    /\ dbPool = TRUE
    /\ totals = [f \in MetricFields |-> 0]
    /\ chatRateBuckets \in {EmptyMap, InviteLoaded}
    /\ rateBuckets = EmptyMap /\ fileRateBuckets = EmptyMap
    /\ otmStore = EmptyMap /\ otmIssued = {} /\ otmLog = EmptyMap
    /\ fileStore = EmptyMap /\ fileIssued = {} /\ fileLog = EmptyMap
    /\ chatInviteStore = EmptyMap /\ inviteLog = EmptyMap
    /\ chatMessageStore = EmptyMap /\ chatLog = EmptyMap
    /\ chatConnections = EmptyMap /\ sockets = EmptyMap
    /\ rooms = EmptyMap /\ timers = EmptyMap /\ burnedRooms = {}

NextInvite ==
    \/ \E ip \in IPs, body \in InviteBodies :
          ExploredInvite(ip) /\ InviteCreate(ip, body, TRUE)
    \/ \E id \in InviteIds : InviteGet(id)
    \/ \E ip \in IPs, id \in InviteIds, body \in ClaimBodies :
          ExploredInvite(ip) /\ InviteClaim(ip, id, body)
    \/ InviteSweep
    \/ InviteTick

SpecInvite == InitInvite /\ [][NextInvite]_vars

(***************************************************************************)
(* 4c. Chat message store and chat sockets.                                *)
(***************************************************************************)
Fingerprints == {"fpA", "fpB"}
MessageIds == {"m1", "m2", "m3"}

\* Bodies of POST /chat/message: three message ids for fpB, a retry of m1 with
\* another payload and no sender, one message for fpA, and malformed bodies.
MessageBodies ==
    {[json |-> TRUE, to |-> "fpB", from |-> "fpA", encryptedMessage |-> "E1",
      messageId |-> "m1"],
     [json |-> TRUE, to |-> "fpB", from |-> "fpA", encryptedMessage |-> "E1",
      messageId |-> "m2"],
     [json |-> TRUE, to |-> "fpB", from |-> "fpA", encryptedMessage |-> "E1",
      messageId |-> "m3"],
     [json |-> TRUE, to |-> "fpB", from |-> Undefined, encryptedMessage |-> "E2",
      messageId |-> "m1"],
     [json |-> TRUE, to |-> "fpA", from |-> "fpB", encryptedMessage |-> "E1",
      messageId |-> "m1"],
     [json |-> TRUE, to |-> "fpB", from |-> "fpA", encryptedMessage |-> "E1",
      messageId |-> Undefined],
     [json |-> FALSE, to |-> Undefined, from |-> Undefined,
      encryptedMessage |-> Undefined, messageId |-> Undefined]}

\* messageIds of an ack; NotArray stands for a value that is no array.
NotArray == <<"not an array">>
AckLists == {<<>>, <<"m1">>, <<"m2">>, <<"m3", "m1">>, <<"m4">>}

AckBodies ==
    [json : {TRUE}, fingerprint : {"fpB"}, messageIds : AckLists]
    \cup {[json |-> TRUE, fingerprint |-> "fpA", messageIds |-> <<"m1">>],
          [json |-> TRUE, fingerprint |-> Undefined, messageIds |-> <<"m1">>],
          [json |-> TRUE, fingerprint |-> "fpB", messageIds |-> NotArray],
          [json |-> FALSE, fingerprint |-> Undefined, messageIds |-> NotArray]}

\* Array.prototype.includes
Includes(array, x) == \E i \in 1..Len(array) : array[i] = x

Mailbox(fp) == IF fp \in DOMAIN chatMessageStore THEN chatMessageStore[fp] ELSE <<>>

\* messages.some(m => m.id === messageId)
HasMessage(messages, messageId) ==
    \E i \in 1..Len(messages) : messages[i].id = messageId

\* A push to every open chat socket of the recipient, replaced ones too.
PushTargetEvery(to) ==
    {s \in DOMAIN sockets : /\ sockets[s].readyState = 1
                            /\ sockets[s].kind = "chat"
                            /\ sockets[s].key = to}

\* The socket a push goes to: the one registered for `to`, if it is open.
PushTarget(to) ==
    IF to \in DOMAIN chatConnections /\ sockets[chatConnections[to]].readyState = 1
    THEN {chatConnections[to]} ELSE {}

\* A duplicate test that never finds the id.
IsDuplicateNever(to, messageId) == FALSE

\* The duplicate test of the send handler.
IsDuplicate(to, messageId) == HasMessage(Mailbox(to), messageId)

\* A handler that takes the enqueue back and answers 500 when the push
\* failed.
AfterPushRollsBack(enqueued, pushOk) ==
    IF pushOk
    THEN [store |-> enqueued,
          res |-> [status |-> 201, body |-> [success |-> TRUE]]]
    ELSE [store |-> chatMessageStore,
          res |-> [status |-> 500, body |-> [error |-> "Push failed"]]]

\* What the handler does once send() has returned: send() gets no callback
\* and its result is not looked at, so the store stays as enqueued and the
\* answer is 201 whether the frame went out or not.
AfterPush(enqueued, pushOk) ==
    [store |-> enqueued, res |-> [status |-> 201, body |-> [success |-> TRUE]]]

\* POST /chat/message
ChatMessageSendWith(ip, body, queryOk, pushOk) ==
    LET rl == checkChatRateLimit(ip, "message")
        message == [id |-> body.messageId,
                    from |-> IF Falsy(body.from) THEN "unknown" ELSE body.from,
                    payload |-> body.encryptedMessage,
                    timestamp |-> now]
        enqueued == MapSet(chatMessageStore, body.to,
                           Append(Mailbox(body.to), message))
    IN
    /\ req' = [op |-> "POST /chat/message", to |-> body.to, id |-> body.messageId,
               ip |-> ip]
    /\ chatRateBuckets' = rl.buckets
    /\ IF ~rl.ok
       THEN /\ res' = RateLimited
            /\ wsOut' = NoFrames
            /\ UNCHANGED <<chatMessageStore, chatLog, totals>>
       ELSE IF ~body.json
       THEN /\ res' = InvalidJson
            /\ wsOut' = NoFrames
            /\ UNCHANGED <<chatMessageStore, chatLog, totals>>
       ELSE IF Falsy(body.to) \/ Falsy(body.encryptedMessage) \/ Falsy(body.messageId)
       THEN /\ res' = [status |-> 400,
                       body |-> [error |-> "Missing to, encryptedMessage, or messageId"]]
            /\ wsOut' = NoFrames
            /\ UNCHANGED <<chatMessageStore, chatLog, totals>>
       ELSE IF IsDuplicate(body.to, body.messageId)
       THEN /\ res' = [status |-> 200,
                       body |-> [success |-> TRUE, duplicate |-> TRUE]]
            /\ wsOut' = NoFrames
            /\ UNCHANGED <<chatMessageStore, chatLog, totals>>
       ELSE /\ chatMessageStore' = AfterPush(enqueued, pushOk).store
            /\ chatLog' = [chatLog EXCEPT ![body.to] = @ \cup {body.messageId}]
            /\ totals' = incrementMetric("chat_messages_sent", queryOk)
            /\ wsOut' = [s \in (IF pushOk THEN PushTarget(body.to) ELSE {}) |->
                           <<[binary |-> FALSE,
                              data |-> [json |-> TRUE,
                                        value |-> [type |-> "newMessage",
                                                   message |-> [id |-> message.id,
                                                                from |-> message.from,
                                                                payload |-> message.payload]]]]>>]
            /\ res' = AfterPush(enqueued, pushOk).res
    /\ UNCHANGED <<now, dbPool, rateBuckets, fileRateBuckets, otmStore,
                   otmIssued, otmLog, fileStore, fileIssued, fileLog, inviteVars,
                   chatConnections, sockets, roomVars>>

\* The handler with a push that goes out.
ChatMessageSend(ip, body, queryOk) == ChatMessageSendWith(ip, body, queryOk, TRUE)

\* A filter that still passes a message of exactly the TTL.
UnexpiredLoose(messages) ==
    SelectSeq(messages, LAMBDA m : now - m.timestamp <= CHAT_MESSAGE_TTL_MS)

\* messages.filter(m => now - m.timestamp < CHAT_MESSAGE_TTL_MS)
Unexpired(messages) ==
    SelectSeq(messages, LAMBDA m : now - m.timestamp < CHAT_MESSAGE_TTL_MS)

\* GET /chat/messages/{fp}
ChatMessagesFetch(fingerprint) ==
    /\ req' = [op |-> "GET /chat/messages/{fp}", fp |-> fingerprint]
    /\ res' = [status |-> 200,
               body |-> [messages |-> Unexpired(Mailbox(fingerprint))]]
    /\ wsOut' = NoFrames
    /\ UNCHANGED <<now, dbPool, totals, rateBuckets, fileRateBuckets,
                   chatRateBuckets, otmStore, otmIssued, otmLog, fileStore,
                   fileIssued, fileLog, inviteVars, chatVars, sockets, roomVars>>

\* An ack that removes the whole mailbox whatever the ids.
AckAll(fingerprint, messageIds) ==
    IF fingerprint \notin DOMAIN chatMessageStore THEN chatMessageStore
    ELSE MapDelete(chatMessageStore, fingerprint)

\* The removal both ack paths perform (HTTP: lines 821-829; chat socket:
\* lines 877-885): the new message store.
Ack(fingerprint, messageIds) ==
    IF fingerprint \notin DOMAIN chatMessageStore THEN chatMessageStore
    ELSE LET remaining == SelectSeq(chatMessageStore[fingerprint],
                                    LAMBDA m : ~Includes(messageIds, m.id))
         IN  IF Len(remaining) = 0
             THEN MapDelete(chatMessageStore, fingerprint)
             ELSE MapSet(chatMessageStore, fingerprint, remaining)

\* An ack handler that drops the mailbox before it looks at messageIds.
ChatMessagesAckEager(body) ==
    /\ wsOut' = NoFrames
    /\ IF ~body.json
       THEN /\ req' = [op |-> "POST /chat/messages/ack"]
            /\ res' = InvalidJson
            /\ UNCHANGED chatMessageStore
       ELSE IF Falsy(body.fingerprint) \/ body.messageIds = NotArray
       THEN /\ req' = [op |-> "POST /chat/messages/ack"]
            /\ res' = [status |-> 400,
                       body |-> [error |-> "Missing fingerprint or messageIds"]]
            /\ chatMessageStore' = MapDelete(chatMessageStore, body.fingerprint)
       ELSE /\ req' = [op |-> "ack", via |-> "http", fp |-> body.fingerprint,
                       ids |-> body.messageIds]
            /\ chatMessageStore' = Ack(body.fingerprint, body.messageIds)
            /\ res' = [status |-> 200, body |-> [success |-> TRUE]]
    /\ UNCHANGED <<now, dbPool, totals, rateBuckets, fileRateBuckets,
                   chatRateBuckets, otmStore, otmIssued, otmLog, fileStore,
                   fileIssued, fileLog, inviteVars, chatLog, chatConnections,
                   sockets, roomVars>>

\* POST /chat/messages/ack
ChatMessagesAck(body) ==
    /\ wsOut' = NoFrames
    /\ IF ~body.json
       THEN /\ req' = [op |-> "POST /chat/messages/ack"]
            /\ res' = InvalidJson
            /\ UNCHANGED chatMessageStore
       ELSE IF Falsy(body.fingerprint) \/ body.messageIds = NotArray
       THEN /\ req' = [op |-> "POST /chat/messages/ack"]
            /\ res' = [status |-> 400,
                       body |-> [error |-> "Missing fingerprint or messageIds"]]
            /\ UNCHANGED chatMessageStore
       ELSE /\ req' = [op |-> "ack", via |-> "http", fp |-> body.fingerprint,
                       ids |-> body.messageIds]
            /\ chatMessageStore' = Ack(body.fingerprint, body.messageIds)
            /\ res' = [status |-> 200, body |-> [success |-> TRUE]]
    /\ UNCHANGED <<now, dbPool, totals, rateBuckets, fileRateBuckets,
                   chatRateBuckets, otmStore, otmIssued, otmLog, fileStore,
                   fileIssued, fileLog, inviteVars, chatLog, chatConnections,
                   sockets, roomVars>>

\* The 60 s sweeper of the message store.
ChatSweep ==
    /\ chatMessageStore' =
           [fp \in {f \in DOMAIN chatMessageStore :
                      Len(Unexpired(chatMessageStore[f])) # 0}
              |-> Unexpired(chatMessageStore[fp])]
    /\ req' = [op |-> "sweep chat"]
    /\ res' = NoRes
    /\ wsOut' = NoFrames
    /\ UNCHANGED <<now, dbPool, totals, rateBuckets, fileRateBuckets,
                   chatRateBuckets, otmStore, otmIssued, otmLog, fileStore,
                   fileIssued, fileLog, inviteVars, chatLog, chatConnections,
                   sockets, roomVars>>

ChatTick ==
    /\ Advance(Instants(CHAT_MESSAGE_TTL_MS))
    /\ UNCHANGED <<dbPool, totals, otmVars, fileVars, chatRateBuckets,
                   inviteVars, chatVars, sockets, roomVars>>

(***************************************************************************)
(* 6, 8. WebSockets: chat sockets and rooms.                               *)
(*                                                                         *)
(* A socket is one accepted connection.  readyState is 1 (OPEN), 2         *)
(* (CLOSING) or 3 (CLOSED); `closing` tells which side started the close.  *)
(* A text is either no JSON at all or the serialisation of a value.        *)
(***************************************************************************)
MaxSockets == 3
DESTRUCTION_DELAY_MS == 5000
SocketIds == 1..MaxSockets
RoomIds == {"r1", "r2"}
Null == "null"

Opaque(raw) == [json |-> FALSE, raw |-> raw]
Json(value) == [json |-> TRUE, value |-> value]
\* JSON.stringify of the frames the server builds.
Stringify(value) == Json(value)

\* parsed.<name>, undefined when the value has no such field.
Field(value, name) == IF name \in DOMAIN value THEN value[name] ELSE Undefined

BurnFrame(roomId) ==
    Json([type |-> "control", action |-> "burnRoom", roomId |-> roomId])

\* Frames a room socket sends: text frames that are no JSON, other JSON, a
\* burnRoom frame without a room id and one for each room; binary frames
\* whose bytes spell the same texts.
RoomTexts ==
    {Opaque("hello"), Json([type |-> "control", action |-> "burnRoom"])}
    \cup {BurnFrame(r) : r \in RoomIds}
RoomFrames ==
    {[binary |-> FALSE, data |-> t] : t \in RoomTexts}
    \cup {[binary |-> TRUE, data |-> t] : t \in {Opaque("hello"), BurnFrame("r1")}}

ChatTexts ==
    {Opaque("hello"), Json([type |-> "pong"]),
     Json([type |-> "ack", messageIds |-> NotArray])}
    \cup {Json([type |-> "ack", messageIds |-> ids]) : ids \in AckLists}

nextSocket == {s \in SocketIds \ DOMAIN sockets :
                 \A t \in SocketIds \ DOMAIN sockets : s <= t}

\* The frames a handler sends: to each socket the sequence it is sent.
SendTo(targets, frame) == [s \in targets |-> <<frame>>]

OpenAmong(clients) == {c \in clients : sockets[c].readyState = 1}

\* A close that closes nothing.
ServerCloseNone(socks, closed) == socks

\* ws.close() called by the server on each socket of `closed`.
ServerClose(socks, closed) ==
    [s \in DOMAIN socks |->
        IF s \in closed /\ socks[s].readyState = 1
        THEN [socks[s] EXCEPT !.readyState = 2, !.closing = "server"]
        ELSE socks[s]]

\* A frame as a socket carries it.
TextFrame(text) == [binary |-> FALSE, data |-> text]
BinaryFrame(data) == [binary |-> TRUE, data |-> data]

\* A presence frame that leaves the newest member out of the count.
PresenceFrameStale(roomId, count) ==
    [binary |-> FALSE,
     data |-> [json |-> TRUE,
               value |-> [type |-> "presence", roomId |-> roomId,
                          count |-> count - 1]]]

PresenceFrame(roomId, count) ==
    TextFrame(Stringify([type |-> "presence", roomId |-> roomId, count |-> count]))
DestroyMsg(roomId) ==
    TextFrame(Stringify([type |-> "roomDestroyed", roomId |-> roomId]))
ConnectedFrame(fingerprint) ==
    TextFrame(Stringify([type |-> "connected", fingerprint |-> fingerprint]))
NewMessageFrame(message) ==
    TextFrame(Stringify([type |-> "newMessage",
                         message |-> [id |-> message.id, from |-> message.from,
                                      payload |-> message.payload]]))

\* A clearTimeout that cancels nothing.
clearTimeoutNot(timer, roomId) == timers

\* if (room.timer) clearTimeout(room.timer): the pending timeouts afterwards.
clearTimeout(timer, roomId) ==
    IF timer # Null THEN MapDelete(timers, roomId) ELSE timers

\* A burned-set test that never finds the room id.
IsBurnedNever(roomId) == FALSE

\* burnedRooms.has(roomId)
IsBurned(roomId) == roomId \in burnedRooms

\* wss.on("connection") with the query parameters of the request URL.
WsConnect(s, roomId, chatFingerprint, queryOk) ==
    /\ s \in nextSocket
    /\ req' = [op |-> "ws connect", socket |-> s, roomId |-> roomId,
               chatFingerprint |-> chatFingerprint]
    /\ res' = NoRes
    /\ IF chatFingerprint # Null
       THEN /\ chatConnections' = MapSet(chatConnections, chatFingerprint, s)
            /\ sockets' = MapSet(sockets, s,
                   [readyState |-> 1, kind |-> "chat", key |-> chatFingerprint,
                    closing |-> "none"])
            /\ wsOut' = SendTo({s}, ConnectedFrame(chatFingerprint))
            /\ UNCHANGED <<rooms, timers, totals>>
       ELSE IF roomId = Null
       THEN /\ sockets' = MapSet(sockets, s,
                   [readyState |-> 2, kind |-> "none", key |-> Null,
                    closing |-> "server"])
            /\ wsOut' = NoFrames
            /\ UNCHANGED <<chatConnections, rooms, timers, totals>>
       ELSE IF IsBurned(roomId)
       THEN /\ sockets' = MapSet(sockets, s,
                   [readyState |-> 2, kind |-> "none", key |-> Null,
                    closing |-> "server"])
            /\ wsOut' = SendTo({s}, DestroyMsg(roomId))
            /\ UNCHANGED <<chatConnections, rooms, timers, totals>>
       ELSE LET isNewRoom == roomId \notin DOMAIN rooms
                room == IF isNewRoom THEN [clients |-> {}, timer |-> Null]
                        ELSE rooms[roomId]
                clients == room.clients \cup {s}
            IN  /\ sockets' = MapSet(sockets, s,
                       [readyState |-> 1, kind |-> "room", key |-> roomId,
                        closing |-> "none"])
                /\ totals' = IF isNewRoom
                             THEN incrementMetric("rooms_created", queryOk)
                             ELSE totals
                /\ rooms' = MapSet(rooms, roomId, [room EXCEPT !.clients = clients])
                /\ timers' = clearTimeout(room.timer, roomId)
                /\ wsOut' = SendTo(OpenAmong(room.clients) \cup {s},
                                   PresenceFrame(roomId, Cardinality(clients)))
                /\ UNCHANGED chatConnections
    /\ UNCHANGED <<now, dbPool, rateBuckets, fileRateBuckets, chatRateBuckets,
                   otmStore, otmIssued, otmLog, fileStore, fileIssued, fileLog,
                   inviteVars, chatMessageStore, chatLog, burnedRooms>>

\* A frame can still arrive on a socket the server has started to close.
Receiving(s) ==
    /\ s \in DOMAIN sockets
    /\ \/ sockets[s].readyState = 1
       \/ sockets[s].readyState = 2 /\ sockets[s].closing = "server"

\* ws.on("message") of a chat socket.
ChatSocketMessage(s, text) ==
    LET fp == sockets[s].key
        isAck == /\ text.json
                 /\ Field(text.value, "type") = "ack"
                 /\ "messageIds" \in DOMAIN text.value
                 /\ text.value.messageIds # NotArray
    IN
    /\ Receiving(s)
    /\ sockets[s].kind = "chat"
    /\ req' = [op |-> "ws message", socket |-> s, binary |-> FALSE, data |-> text]
    /\ res' = NoRes
    /\ wsOut' = NoFrames
    /\ chatMessageStore' = IF isAck THEN Ack(fp, text.value.messageIds)
                           ELSE chatMessageStore
    /\ UNCHANGED <<now, dbPool, totals, rateBuckets, fileRateBuckets,
                   chatRateBuckets, otmStore, otmIssued, otmLog, fileStore,
                   fileIssued, fileLog, inviteVars, chatLog, chatConnections,
                   sockets, roomVars>>

\* The members a relayed frame is sent to, the sender included.
RelayTargetsEcho(s, roomId) ==
    IF roomId \notin DOMAIN rooms THEN {}
    ELSE OpenAmong(rooms[roomId].clients)

\* The members a relayed frame is sent to: every other open client.
RelayTargets(s, roomId) ==
    IF roomId \notin DOMAIN rooms THEN {}
    ELSE OpenAmong(rooms[roomId].clients) \ {s}

\* A control test that does not compare the room id.
IsBurnAnyRoom(text, roomId) ==
    /\ text.json
    /\ Field(text.value, "type") = "control"
    /\ Field(text.value, "action") = "burnRoom"

\* The control-frame test of the room message handler.
IsBurn(text, roomId) ==
    /\ text.json
    /\ Field(text.value, "type") = "control"
    /\ Field(text.value, "action") = "burnRoom"
    /\ Field(text.value, "roomId") = roomId

\* ws.on("message") of a room socket.
RoomSocketMessage(s, text, isBinary) ==
    LET roomId == sockets[s].key IN
    /\ Receiving(s)
    /\ sockets[s].kind = "room"
    /\ req' = [op |-> "ws message", socket |-> s, binary |-> isBinary,
               data |-> text]
    /\ res' = NoRes
    /\ IF ~isBinary /\ IsBurn(text, roomId)
       THEN /\ burnedRooms' = burnedRooms \cup {roomId}
            /\ IF roomId \in DOMAIN rooms
               THEN /\ wsOut' = SendTo(OpenAmong(rooms[roomId].clients),
                                       DestroyMsg(roomId))
                    /\ sockets' = ServerClose(sockets, rooms[roomId].clients)
                    /\ rooms' = MapDelete(rooms, roomId)
               ELSE /\ wsOut' = SendTo(OpenAmong({s}), DestroyMsg(roomId))
                    /\ sockets' = ServerClose(sockets, {s})
                    /\ UNCHANGED rooms
       ELSE /\ wsOut' = SendTo(RelayTargets(s, roomId),
                               [binary |-> isBinary, data |-> text])
            /\ UNCHANGED <<burnedRooms, sockets, rooms>>
    /\ UNCHANGED <<now, dbPool, totals, rateBuckets, fileRateBuckets,
                   chatRateBuckets, otmStore, otmIssued, otmLog, fileStore,
                   fileIssued, fileLog, inviteVars, chatVars, timers>>

\* The peer starts the closing handshake: the socket is no longer open, its
\* "close" event has not fired yet.
WsClosing(s) ==
    /\ s \in DOMAIN sockets
    /\ sockets[s].readyState = 1
    /\ sockets' = [sockets EXCEPT ![s].readyState = 2, ![s].closing = "peer"]
    /\ req' = [op |-> "ws closing", socket |-> s]
    /\ res' = NoRes
    /\ wsOut' = NoFrames
    /\ UNCHANGED <<now, dbPool, totals, rateBuckets, fileRateBuckets,
                   chatRateBuckets, otmStore, otmIssued, otmLog, fileStore,
                   fileIssued, fileLog, inviteVars, chatVars, roomVars>>

\* A close handler that drops the fingerprint's entry whichever socket it
\* holds.
UnregisterAny(fingerprint, s) ==
    IF fingerprint \in DOMAIN chatConnections
    THEN MapDelete(chatConnections, fingerprint)
    ELSE chatConnections

\* The close handler of a chat socket: the entry goes only if it still holds
\* this socket.
Unregister(fingerprint, s) ==
    IF fingerprint \in DOMAIN chatConnections /\ chatConnections[fingerprint] = s
    THEN MapDelete(chatConnections, fingerprint)
    ELSE chatConnections

\* A closed socket: no handler of it runs again, so what it was is dropped.
Closed == [readyState |-> 3, kind |-> "none", key |-> Null, closing |-> "none"]

\* ws.on("close"): the socket is closed and its close handler, if it has
\* one, runs.
WsClose(s) ==
    LET kind == sockets[s].kind
        key == sockets[s].key
        inRoom == kind = "room" /\ key \in DOMAIN rooms
        clients == rooms[key].clients \ {s}
    IN
    /\ s \in DOMAIN sockets
    /\ sockets[s].readyState \in {1, 2}
    /\ sockets' = [sockets EXCEPT ![s] = Closed]
    /\ req' = [op |-> "ws close", socket |-> s]
    /\ res' = NoRes
    /\ chatConnections' = IF kind = "chat" THEN Unregister(key, s)
                          ELSE chatConnections
    /\ IF inRoom
       THEN IF clients = {}
            THEN /\ rooms' = [rooms EXCEPT ![key].clients = clients,
                                           ![key].timer = "timeout"]
                 /\ timers' = MapSet(timers, key, now + DESTRUCTION_DELAY_MS)
                 /\ wsOut' = NoFrames
            ELSE /\ rooms' = [rooms EXCEPT ![key].clients = clients]
                 /\ wsOut' = SendTo({c \in clients : sockets'[c].readyState = 1},
                                    PresenceFrame(key, Cardinality(clients)))
                 /\ UNCHANGED timers
       ELSE /\ wsOut' = NoFrames
            /\ UNCHANGED <<rooms, timers>>
    /\ UNCHANGED <<now, dbPool, totals, rateBuckets, fileRateBuckets,
                   chatRateBuckets, otmStore, otmIssued, otmLog, fileStore,
                   fileIssued, fileLog, inviteVars, chatMessageStore, chatLog,
                   burnedRooms>>

\* A timeout callback that forgets the room.
DestructionTimeoutKeeps(roomId) ==
    /\ roomId \in DOMAIN timers
    /\ timers' = MapDelete(timers, roomId)
    /\ rooms' = rooms
    /\ req' = [op |-> "timeout", roomId |-> roomId]
    /\ res' = NoRes
    /\ wsOut' = NoFrames
    /\ UNCHANGED <<now, dbPool, totals, rateBuckets, fileRateBuckets,
                   chatRateBuckets, otmStore, otmIssued, otmLog, fileStore,
                   fileIssued, fileLog, inviteVars, chatVars, sockets,
                   burnedRooms>>

\* The callback of scheduleDestruction's setTimeout runs; when, is the
\* timer's matter (DestructionDue).
DestructionTimeout(roomId) ==
    /\ roomId \in DOMAIN timers
    /\ timers' = MapDelete(timers, roomId)
    /\ rooms' = MapDelete(rooms, roomId)
    /\ req' = [op |-> "timeout", roomId |-> roomId]
    /\ res' = NoRes
    /\ wsOut' = NoFrames
    /\ UNCHANGED <<now, dbPool, totals, rateBuckets, fileRateBuckets,
                   chatRateBuckets, otmStore, otmIssued, otmLog, fileStore,
                   fileIssued, fileLog, inviteVars, chatVars, sockets,
                   burnedRooms>>

MessageLoaded ==
    [ip \in IPs |-> [windowStart |-> 0, inviteCount |-> 0,
                     messageCount |-> MAX_CHAT_MESSAGE_PER_WINDOW - RateSlack]]

InitChat ==
    /\ now = 0 /\ req = NoReq /\ res = NoRes /\ wsOut = NoFrames
    /\ dbPool = TRUE
    /\ totals = [f \in MetricFields |-> 0]
    /\ chatRateBuckets \in {EmptyMap, MessageLoaded}
    /\ rateBuckets = EmptyMap /\ fileRateBuckets = EmptyMap
    /\ otmStore = EmptyMap /\ otmIssued = {} /\ otmLog = EmptyMap
    /\ fileStore = EmptyMap /\ fileIssued = {} /\ fileLog = EmptyMap
    /\ chatInviteStore = EmptyMap /\ inviteLog = EmptyMap
    /\ chatMessageStore = EmptyMap /\ chatLog = [fp \in Fingerprints |-> {}]
    /\ chatConnections = EmptyMap /\ sockets = EmptyMap
    /\ rooms = EmptyMap /\ timers = EmptyMap /\ burnedRooms = {}

\* The message store over HTTP, with the clock and the sweeper.
TimedBodies == {b \in MessageBodies : b.messageId # "m3" /\ b.encryptedMessage # "E2"}

NextChat ==
    \/ \E ip \in IPs, body \in TimedBodies :
          ExploredSends(ip) /\ ChatMessageSend(ip, body, TRUE)
    \/ \E fp \in Fingerprints : ChatMessagesFetch(fp)
    \/ \E body \in AckBodies : ChatMessagesAck(body)
    \/ ChatSweep
    \/ ChatTick

SpecChat == InitChat /\ [][NextChat]_vars

\* The message store with the chat sockets of one recipient, within one rate
\* window.
ChatSocketIds == 1..MaxChatSockets

InitChatWs == InitChat /\ chatRateBuckets = EmptyMap

NextChatWs ==
    \/ \E ip \in IPs, body \in MessageBodies :
          ExploredSends(ip) /\ ChatMessageSend(ip, body, TRUE)
    \/ \E body \in AckBodies : ChatMessagesAck(body)
    \/ \E s \in ChatSocketIds : WsConnect(s, Null, "fpB", TRUE)
    \/ \E s \in ChatSocketIds, text \in ChatTexts : ChatSocketMessage(s, text)
    \/ \E s \in ChatSocketIds : WsClosing(s)
    \/ \E s \in ChatSocketIds : WsClose(s)

SpecChatWs == InitChatWs /\ [][NextChatWs]_vars

\* The push on enqueue: sends to one recipient, that recipient's chat
\* sockets, fetch, one ack over each path, the sweeper and the clock.
PushBodies ==
    {b \in MessageBodies : b.json /\ b.to = "fpB" /\ b.messageId \in {"m1", "m2"}}
PushAck == <<"m1">>

\* The clock of this part visits the TTL of a message sent at the start and
\* the millisecond after it.
PushTick ==
    /\ Advance({CHAT_MESSAGE_TTL_MS, CHAT_MESSAGE_TTL_MS + 1})
    /\ UNCHANGED <<dbPool, totals, otmVars, fileVars, chatRateBuckets,
                   inviteVars, chatVars, sockets, roomVars>>

\* A run is followed for SendSlack stored messages.
ExploredStored == totals["chat_messages_sent"] < SendSlack

NextPush ==
    \/ \E ip \in IPs, body \in PushBodies :
          ExploredSends(ip) /\ ExploredStored /\ ChatMessageSend(ip, body, TRUE)
    \/ ChatMessagesFetch("fpB")
    \/ ChatMessagesAck([json |-> TRUE, fingerprint |-> "fpB", messageIds |-> PushAck])
    \/ \E s \in ChatSocketIds : WsConnect(s, Null, "fpB", TRUE)
    \/ \E s \in ChatSocketIds :
          ChatSocketMessage(s, Json([type |-> "ack", messageIds |-> PushAck]))
    \/ \E s \in ChatSocketIds : WsClosing(s)
    \/ \E s \in ChatSocketIds : WsClose(s)
    \/ ChatSweep
    \/ PushTick

SpecPush == InitChatWs /\ [][NextPush]_vars

\* The callback runs once its delay has passed: setTimeout never runs it
\* early, and it may run it late.
DestructionDue(roomId) ==
    /\ roomId \in DOMAIN timers
    /\ now >= timers[roomId]
    /\ DestructionTimeout(roomId)

RoomTick ==
    /\ Advance(Instants(DESTRUCTION_DELAY_MS))
    /\ UNCHANGED <<dbPool, totals, otmVars, fileVars, chatRateBuckets,
                   inviteVars, chatVars, sockets, roomVars>>

InitRoom ==
    /\ now = 0 /\ req = NoReq /\ res = NoRes /\ wsOut = NoFrames
    /\ dbPool = TRUE
    /\ totals = [f \in MetricFields |-> 0]
    /\ rateBuckets = EmptyMap /\ fileRateBuckets = EmptyMap
    /\ chatRateBuckets = EmptyMap
    /\ otmStore = EmptyMap /\ otmIssued = {} /\ otmLog = EmptyMap
    /\ fileStore = EmptyMap /\ fileIssued = {} /\ fileLog = EmptyMap
    /\ chatInviteStore = EmptyMap /\ inviteLog = EmptyMap
    /\ chatMessageStore = EmptyMap /\ chatLog = [fp \in Fingerprints |-> {}]
    /\ chatConnections = EmptyMap /\ sockets = EmptyMap
    /\ rooms = EmptyMap /\ timers = EmptyMap /\ burnedRooms = {}

NextRoom ==
    \/ \E s \in SocketIds, roomId \in RoomIds \cup {Null},
          fp \in {Null, "fpA"} : WsConnect(s, roomId, fp, TRUE)
    \/ \E s \in SocketIds, f \in RoomFrames :
          RoomSocketMessage(s, f.data, f.binary)
    \/ \E s \in SocketIds : WsClosing(s)
    \/ \E s \in SocketIds : WsClose(s)
    \/ \E roomId \in RoomIds : DestructionTimeout(roomId)

SpecRoom == InitRoom /\ [][NextRoom]_vars

\* The live map of chat sockets: registrations for both fingerprints,
\* closing handshakes and closes.
NextRegistry ==
    \/ \E s \in SocketIds, fp \in Fingerprints : WsConnect(s, Null, fp, TRUE)
    \/ \E s \in SocketIds : WsClosing(s)
    \/ \E s \in SocketIds : WsClose(s)

SpecRegistry == InitRoom /\ [][NextRegistry]_vars

\* Rooms with the clock: joins, leaves and the destruction timer.
NextRoomTimer ==
    \/ \E s \in SocketIds, roomId \in RoomIds : WsConnect(s, roomId, Null, TRUE)
    \/ \E s \in SocketIds : WsClosing(s)
    \/ \E s \in SocketIds : WsClose(s)
    \/ \E roomId \in RoomIds : DestructionDue(roomId)
    \/ RoomTick

SpecRoomTimer == InitRoom /\ [][NextRoomTimer]_vars

\* The event loop runs a due callback: a due timeout does not stay pending
\* for ever.
SpecRoomTimerFair ==
    SpecRoomTimer /\ \A roomId \in RoomIds : WF_vars(DestructionDue(roomId))

(***************************************************************************)
(* The rate limiters on their own: requests that get past the limiter and  *)
(* stop at the first check of their handler, one limiter at a time, with   *)
(* the clock crossing the end of a window.                                 *)
(***************************************************************************)
Unparsable(bodies) == {b \in bodies : ~b.json}

\* A window is followed until RateSlack requests past its threshold.
Overshoot(count, max) == count < max + RateSlack

\* Uploads always store a file, so a run has only MaxId of them: a window of
\* uploads starts from any number of earlier uploads whose files other
\* clients have downloaded since.
UploadsBefore ==
    {[ip \in IPs |-> [windowStart |-> 0, uploadCount |-> u, downloadCount |-> 0]] :
        u \in 0..MAX_POST_FILE_PER_WINDOW}

InitRate ==
    /\ now = 0 /\ req = NoReq /\ res = NoRes /\ wsOut = NoFrames
    /\ dbPool = TRUE
    /\ totals = [f \in MetricFields |-> 0]
    /\ rateBuckets = EmptyMap /\ chatRateBuckets = EmptyMap
    /\ fileRateBuckets \in {EmptyMap} \cup UploadsBefore
    /\ otmStore = EmptyMap /\ otmIssued = {} /\ otmLog = EmptyMap
    /\ fileStore = EmptyMap /\ fileIssued = {} /\ fileLog = EmptyMap
    /\ chatInviteStore = EmptyMap /\ inviteLog = EmptyMap
    /\ chatMessageStore = EmptyMap /\ chatLog = [fp \in Fingerprints |-> {}]
    /\ chatConnections = EmptyMap /\ sockets = EmptyMap
    /\ rooms = EmptyMap /\ timers = EmptyMap /\ burnedRooms = {}

RateTick ==
    /\ Advance(Instants(RATE_WINDOW_MS))
    /\ UNCHANGED <<dbPool, totals, otmVars, fileVars, chatRateBuckets,
                   inviteVars, chatVars, sockets, roomVars>>

NextRateOtm ==
    /\ fileRateBuckets = EmptyMap /\ chatRateBuckets = EmptyMap
    /\ \E ip \in IPs :
          \/ /\ Overshoot(Counter(rateBuckets, ip, RATE_WINDOW_MS, "postCount"),
                          MAX_POST_OTM_PER_WINDOW)
             /\ ExploredGetOtm(ip)
             /\ \E body \in Unparsable(OtmBodies) : OtmCreate(ip, body, TRUE)
          \/ /\ Overshoot(Counter(rateBuckets, ip, RATE_WINDOW_MS, "getCount"),
                          MAX_GET_OTM_PER_WINDOW)
             /\ ExploredPostOtm(ip)
             /\ OtmRead(ip, MaxId)

NextRateFile ==
    /\ rateBuckets = EmptyMap /\ chatRateBuckets = EmptyMap
    /\ \E ip \in IPs :
          \/ /\ Overshoot(Counter(fileRateBuckets, ip, FILE_RATE_WINDOW_MS,
                                  "uploadCount"), MAX_POST_FILE_PER_WINDOW)
             /\ ExploredDownload(ip)
             /\ FileUpload(ip, <<>>, TRUE)
          \/ /\ Overshoot(Counter(fileRateBuckets, ip, FILE_RATE_WINDOW_MS,
                                  "downloadCount"), MAX_GET_FILE_PER_WINDOW)
             /\ ExploredUpload(ip)
             /\ FileDownload(ip, MaxId)

NextRateChat ==
    /\ rateBuckets = EmptyMap /\ fileRateBuckets = EmptyMap
    /\ \E ip \in IPs :
          \/ /\ Overshoot(Counter(chatRateBuckets, ip, CHAT_RATE_WINDOW_MS,
                                  "inviteCount"), MAX_CHAT_INVITE_PER_WINDOW)
             /\ ExploredSends(ip)
             /\ \/ \E body \in Unparsable(InviteBodies) : InviteCreate(ip, body, TRUE)
                \/ \E body \in Unparsable(ClaimBodies) : InviteClaim(ip, "inv1", body)
          \/ /\ Overshoot(Counter(chatRateBuckets, ip, CHAT_RATE_WINDOW_MS,
                                  "messageCount"), MAX_CHAT_MESSAGE_PER_WINDOW)
             /\ ExploredInvite(ip)
             /\ \E body \in Unparsable(MessageBodies) : ChatMessageSend(ip, body, TRUE)

NextRate ==
    \/ NextRateOtm
    \/ NextRateFile
    \/ NextRateChat
    \/ RateTick

SpecRate == InitRate /\ [][NextRate]_vars

(***************************************************************************)
(* The three rate limiters with two clients, within one window: requests   *)
(* of the three families in every order, one kind of request per family,   *)
(* each stopping at the first check of its handler.  One client starts     *)
(* with the bucket of one family near its thresholds.                      *)
(***************************************************************************)
RateIPs == {"ip1", "ip2"}

InitRateIps ==
    /\ now = 0 /\ req = NoReq /\ res = NoRes /\ wsOut = NoFrames
    /\ dbPool = TRUE
    /\ totals = [f \in MetricFields |-> 0]
    /\ \E b \in {<<OtmLoaded, EmptyMap, EmptyMap>>, <<EmptyMap, FileLoaded, EmptyMap>>,
                 <<EmptyMap, EmptyMap, MessageLoaded>>} :
          rateBuckets = b[1] /\ fileRateBuckets = b[2] /\ chatRateBuckets = b[3]
    /\ otmStore = EmptyMap /\ otmIssued = {} /\ otmLog = EmptyMap
    /\ fileStore = EmptyMap /\ fileIssued = {} /\ fileLog = EmptyMap
    /\ chatInviteStore = EmptyMap /\ inviteLog = EmptyMap
    /\ chatMessageStore = EmptyMap /\ chatLog = [fp \in Fingerprints |-> {}]
    /\ chatConnections = EmptyMap /\ sockets = EmptyMap
    /\ rooms = EmptyMap /\ timers = EmptyMap /\ burnedRooms = {}

NextRateIps ==
    \/ \E ip \in RateIPs, body \in Unparsable(OtmBodies) :
          ExploredPostOtm(ip) /\ OtmCreate(ip, body, TRUE)
    \/ \E ip \in RateIPs : ExploredDownload(ip) /\ FileDownload(ip, MaxId)
    \/ \E ip \in RateIPs, body \in Unparsable(MessageBodies) :
          ExploredSends(ip) /\ ChatMessageSend(ip, body, TRUE)

SpecRateIps == InitRateIps /\ [][NextRateIps]_vars

(***************************************************************************)
(* Request bodies: the "data" handler of each POST route adds a chunk to   *)
(* what it has received and destroys the request once the length is over   *)
(* the route's cap; "end" fires only on a request that was not destroyed,  *)
(* and then the route's handler runs on the complete body.                 *)
(***************************************************************************)
MaxChunks == 3

BodyRoutes ==
    {"POST /otm", "POST /chat/invite", "POST /chat/invite/{id}/claim",
     "POST /chat/message", "POST /chat/messages/ack", "POST /file"}

\* The number each data handler compares the accumulated length with.
BodyCap(route) ==
    CASE route = "POST /otm" -> 1000000
      [] route = "POST /chat/invite" -> 100000
      [] route = "POST /chat/invite/{id}/claim" -> 100000
      [] route = "POST /chat/message" -> 500000
      [] route = "POST /chat/messages/ack" -> 50000
      [] route = "POST /file" -> MAX_SIZE

\* Lengths of the chunks a body arrives in.
ChunkSizes(route) == {1, 2, BodyCap(route) - 2, BodyCap(route)}

BodyEnded == [status |-> 0, ended |-> TRUE]

\* A request with a body has got past the rate limiter: nothing received yet.
BodyOpen(route) ==
    /\ req.op = "data" => res # NoRes
    /\ req' = [op |-> "data", route |-> route, length |-> 0, chunks |-> 0]
    /\ res' = NoRes
    /\ wsOut' = NoFrames
    /\ UNCHANGED <<now, dbPool, totals, otmVars, fileVars, chatRateBuckets,
                   inviteVars, chatVars, sockets, roomVars>>

\* req.on("data"): body += c (total += chunk.length for a file), then the
\* test against the cap.
BodyData(route, size) ==
    /\ req.op = "data" /\ req.route = route /\ res = NoRes
    /\ req.chunks < MaxChunks
    /\ req' = [req EXCEPT !.length = @ + size, !.chunks = @ + 1]
    /\ res' = IF req.length + size > BodyCap(route) THEN Destroyed ELSE NoRes
    /\ wsOut' = NoFrames
    /\ UNCHANGED <<now, dbPool, totals, otmVars, fileVars, chatRateBuckets,
                   inviteVars, chatVars, sockets, roomVars>>

\* req.on("end")
BodyEnd ==
    /\ req.op = "data" /\ res = NoRes
    /\ req' = req
    /\ res' = BodyEnded
    /\ wsOut' = NoFrames
    /\ UNCHANGED <<now, dbPool, totals, otmVars, fileVars, chatRateBuckets,
                   inviteVars, chatVars, sockets, roomVars>>

NextBody ==
    \/ \E route \in BodyRoutes : BodyOpen(route)
    \/ \E route \in BodyRoutes :
          \E size \in ChunkSizes(route) : BodyData(route, size)
    \/ BodyEnd

SpecBody == InitRoom /\ [][NextBody]_vars

(***************************************************************************)
(* The two one-time stores with their clocks, one store at a time.         *)
(***************************************************************************)
InitTtl == InitOtm /\ rateBuckets = EmptyMap

NextTtl ==
    \/ fileIssued = {} /\ fileRateBuckets = EmptyMap /\ NextOtm
    \/ otmIssued = {} /\ rateBuckets = EmptyMap /\ NextFile

SpecTtl == InitTtl /\ [][NextTtl]_vars

(***************************************************************************)
(* All routes, one part of the server at a time, within one rate window:   *)
(* Q is the set of outcomes of the totals query (TRUE: the update is       *)
(* applied), P the set of outcomes of a push (TRUE: the frame goes out).   *)
(***************************************************************************)
LoadedBuckets ==
    {<<EmptyMap, EmptyMap, EmptyMap>>, <<OtmLoaded, EmptyMap, EmptyMap>>,
     <<EmptyMap, FileLoaded, EmptyMap>>, <<EmptyMap, EmptyMap, InviteLoaded>>,
     <<EmptyMap, EmptyMap, MessageLoaded>>}

InitRoutes ==
    /\ now = 0 /\ req = NoReq /\ res = NoRes /\ wsOut = NoFrames
    /\ dbPool = TRUE
    /\ totals = [f \in MetricFields |-> 0]
    /\ \E b \in LoadedBuckets :
          rateBuckets = b[1] /\ fileRateBuckets = b[2] /\ chatRateBuckets = b[3]
    /\ otmStore = EmptyMap /\ otmIssued = {} /\ otmLog = EmptyMap
    /\ fileStore = EmptyMap /\ fileIssued = {} /\ fileLog = EmptyMap
    /\ chatInviteStore = EmptyMap /\ inviteLog = EmptyMap
    /\ chatMessageStore = EmptyMap /\ chatLog = [fp \in Fingerprints |-> {}]
    /\ chatConnections = EmptyMap /\ sockets = EmptyMap
    /\ rooms = EmptyMap /\ timers = EmptyMap /\ burnedRooms = {}

\* The parts not yet used by any request or connection.
OtmUnused == rateBuckets = EmptyMap
FileUnused == fileRateBuckets = EmptyMap
InvitesUnused ==
    /\ inviteLog = EmptyMap
    /\ \A ip \in DOMAIN chatRateBuckets : chatRateBuckets[ip].inviteCount = 0
MessagesUnused ==
    /\ \A fp \in Fingerprints : chatLog[fp] = {}
    /\ \A ip \in DOMAIN chatRateBuckets : chatRateBuckets[ip].messageCount = 0
    /\ chatConnections = EmptyMap
    /\ sockets # EmptyMap => rooms # EmptyMap
RoomsUnused == rooms = EmptyMap /\ totals["rooms_created"] = 0
ChatUnused == chatRateBuckets = EmptyMap /\ sockets = EmptyMap

RoutesOtm(Q) ==
    /\ FileUnused /\ ChatUnused
    /\ \/ \E ip \in IPs, body \in OtmBodies, q \in Q :
             ExploredPostOtm(ip) /\ OtmCreate(ip, body, q)
       \/ \E ip \in IPs, id \in IdSpace : ExploredGetOtm(ip) /\ OtmRead(ip, id)

RoutesFile(Q) ==
    /\ OtmUnused /\ ChatUnused
    /\ \/ \E ip \in IPs, chunks \in FileBodies, q \in Q :
             ExploredUpload(ip) /\ FileUpload(ip, chunks, q)
       \/ \E ip \in IPs, id \in IdSpace : ExploredDownload(ip) /\ FileDownload(ip, id)

RoutesInvite(Q) ==
    /\ OtmUnused /\ FileUnused /\ MessagesUnused /\ RoomsUnused
    /\ \/ \E ip \in IPs, body \in InviteBodies, q \in Q :
             ExploredInvite(ip) /\ InviteCreate(ip, body, q)
       \/ \E id \in InviteIds : InviteGet(id)
       \/ \E ip \in IPs, id \in InviteIds, body \in ClaimBodies :
             ExploredInvite(ip) /\ InviteClaim(ip, id, body)

RoutesChat(Q, P) ==
    /\ OtmUnused /\ FileUnused /\ InvitesUnused /\ RoomsUnused
    /\ \/ \E ip \in IPs, body \in TimedBodies, q \in Q, p \in P :
             ExploredSends(ip) /\ ChatMessageSendWith(ip, body, q, p)
       \/ \E fp \in Fingerprints : ChatMessagesFetch(fp)
       \/ \E body \in AckBodies : ChatMessagesAck(body)
       \/ \E s \in ChatSocketIds : WsConnect(s, Null, "fpB", TRUE)
       \/ \E s \in ChatSocketIds : WsClosing(s)
       \/ \E s \in ChatSocketIds : WsClose(s)

RoutesRoom(Q) ==
    /\ OtmUnused /\ FileUnused /\ InvitesUnused /\ MessagesUnused
    /\ \/ \E s \in ChatSocketIds, roomId \in RoomIds, q \in Q :
             WsConnect(s, roomId, Null, q)
       \/ \E s \in ChatSocketIds : WsClosing(s)
       \/ \E s \in ChatSocketIds : WsClose(s)
       \/ \E roomId \in RoomIds : DestructionTimeout(roomId)

NextRoutes(Q, P) ==
    \/ RoutesOtm(Q)
    \/ RoutesFile(Q)
    \/ RoutesInvite(Q)
    \/ RoutesChat(Q, P)
    \/ RoutesRoom(Q)

\* Every query and every push may fail.
NextBestEffort == NextRoutes(BOOLEAN, BOOLEAN)

SpecBestEffort == InitRoutes /\ [][NextBestEffort]_vars

\* The totals sink is configured and every query succeeds.
NextTotals == NextRoutes({TRUE}, {TRUE})

SpecTotals == InitRoutes /\ [][NextTotals]_vars

\* C1 (at most one 200 per id): no OTM id is ever answered 200 more often than
\* once, whatever the interleaving of the GETs for it.
C1_AtMostOnce == \A id \in DOMAIN otmLog : otmLog[id].reads <= 1

\* C1 (the posted ciphertext): a GET answered 200 carries the ciphertext that
\* the POST which returned its id stored.
C1_Posted ==
    (req.op = "GET /otm/{id}" /\ res.status = 200)
        => res.body = [ciphertext |-> otmLog[req.id].posted]

\* C1 (gone afterwards): a GET for an id that has been answered 200 before is
\* answered 404 {used:true} when it reaches the store (the rate limiter
\* answers 429 before the store is looked at).
C1_GoneAfter ==
    \A id \in IdSpace :
        (/\ id \in DOMAIN otmLog
         /\ otmLog[id].reads >= 1
         /\ (req'.op = "GET /otm/{id}" /\ req'.id = id)
         /\ res' # RateLimited)
            => res' = Used

C2_AtMostOnce == \A id \in DOMAIN fileLog : fileLog[id].reads <= 1

\* C2 (the uploaded bytes): the body of a download answered 200 is, byte for
\* byte, what the upload that returned its id sent.
C2_Bytes ==
    (req.op = "GET /file/{id}" /\ res.status = 200)
        => res.body = Flatten(fileLog[req.id].posted)

\* C2 (gone afterwards): a download of an id answered 200 before is answered
\* 404 {used:true} when it reaches the store.
C2_GoneAfter ==
    \A id \in IdSpace :
        (/\ id \in DOMAIN fileLog
         /\ fileLog[id].reads >= 1
         /\ (req'.op = "GET /file/{id}" /\ req'.id = id)
         /\ res' # RateLimited)
            => res' = Used

ClaimHandled(id) ==
    /\ (req'.op = "POST /chat/invite/{id}/claim" /\ req'.id = id)
    /\ res'.status \notin {400, 429}

\* C3 as stated: once an invite has been claimed, every later claim on the
\* still-stored invite returns 409 and changes nothing.
C3_LaterClaim409 ==
    [][\A id \in InviteIds :
          (/\ id \in DOMAIN chatInviteStore
           /\ inviteLog[id] >= 1
           /\ ClaimHandled(id))
              => (res'.status = 409 /\ chatInviteStore' = chatInviteStore)]_vars

\* C3 (at most one 200): no stored invite entry is claimed with 200 more than
\* once between its creation and its removal.
C3_AtMostOnce == \A id \in DOMAIN inviteLog : inviteLog[id] <= 1

\* C3 (the creator bundle): a claim answered 200 carries the bundle the
\* creator stored.
C3_CreatorBundle ==
    (req.op = "POST /chat/invite/{id}/claim" /\ res.status = 200)
        => /\ req.id \in DOMAIN chatInviteStore
           /\ res.body.creatorBundle = chatInviteStore[req.id].publicKeyBundle

\* C3 (later claims): a later claim on a stored entry that is not past its
\* expiresAt returns 409 and changes nothing; past expiresAt it returns 404
\* and removes the entry.
C3_LaterClaim ==
    \A id \in InviteIds :
        (/\ id \in DOMAIN chatInviteStore
         /\ inviteLog[id] >= 1
         /\ ClaimHandled(id))
            => IF now > chatInviteStore[id].expiresAt
               THEN /\ res' = Expired
                    /\ chatInviteStore' = MapDelete(chatInviteStore, id)
               ELSE /\ res'.status = 409
                    /\ chatInviteStore' = chatInviteStore

\* C3 (get): a get answered 200 changes nothing, and the same get repeated
\* right after it, not past expiresAt, returns the same view.
C3_GetIdempotent ==
    /\ (req'.op = "GET /chat/invite/{id}" /\ res'.status = 200)
           => chatInviteStore' = chatInviteStore
    /\ (/\ req.op = "GET /chat/invite/{id}"
        /\ res.status = 200
        /\ req' = req
        /\ ~(now' > chatInviteStore[req.id].expiresAt))
           => res' = res

\* C3 (amended): for every stored invite at most one claim returns 200 with
\* the creator bundle; a later claim returns 409 and changes nothing while
\* the entry is not past its expiresAt (404 and removal past it); get is
\* idempotent.
C3_ClaimOnce ==
    /\ [](C3_AtMostOnce /\ C3_CreatorBundle)
    /\ [][C3_LaterClaim /\ C3_GetIdempotent]_vars

\* C3 witness: a second claim of a claimed, unexpired invite was answered 409.
C3_Witness ==
    /\ req.op = "POST /chat/invite/{id}/claim"
    /\ res.status = 409
    /\ inviteLog[req.id] = 1
    /\ chatInviteStore[req.id].claimed

\* The ids of a mailbox, in its order.
IdsOf(messages) == [i \in 1..Len(messages) |-> messages[i].id]

\* A send for recipient `to` with message id `id` that got past the rate
\* limiter.
SendHandled(to, id) ==
    /\ (req'.op = "POST /chat/message" /\ req'.to = to /\ req'.id = id)
    /\ res' # RateLimited

DuplicateSuccess == [status |-> 200, body |-> [success |-> TRUE, duplicate |-> TRUE]]

\* C4 (no-op): a send whose messageId is in the recipient's mailbox returns
\* 200 {success:true,duplicate:true}, leaves every mailbox and every total
\* as it was and pushes no frame.
C4_NoOp ==
    req'.op = "POST /chat/message" =>
    \A to \in Fingerprints, id \in MessageIds :
        (/\ \E i \in 1..Len(Mailbox(to)) : Mailbox(to)[i].id = id
         /\ SendHandled(to, id))
            => /\ res' = DuplicateSuccess
               /\ chatMessageStore' = chatMessageStore
               /\ totals' = totals
               /\ wsOut' = NoFrames

\* C4 (distinct ids): no mailbox holds two messages with the same id.
C4_DistinctIds ==
    \A fp \in DOMAIN chatMessageStore :
        \A i, j \in 1..Len(chatMessageStore[fp]) :
            chatMessageStore[fp][i].id = chatMessageStore[fp][j].id => i = j

\* C4: POST /chat/message whose messageId is already in the recipient's
\* mailbox is a no-op answered 200 {success:true,duplicate:true}: mailbox
\* unchanged, nothing pushed, no total incremented; so no mailbox ever holds
\* two messages with the same id.
C4_DuplicateIsNoOp == []C4_DistinctIds /\ [][C4_NoOp]_vars

\* C4 witness: a repeat of a stored id was answered as a duplicate while the
\* recipient's chat socket was open, and nothing was pushed or counted.
C4_Witness ==
    /\ req = [op |-> "POST /chat/message", to |-> "fpB", id |-> "m1", ip |-> "ip1"]
    /\ res = DuplicateSuccess
    /\ PushTarget("fpB") # {}
    /\ wsOut = NoFrames
    /\ IdsOf(Mailbox("fpB")) = <<"m1">>
    /\ totals["chat_messages_sent"] = 1

\* C5 as stated: a send that repeats a messageId accepted before for that
\* recipient is answered as a duplicate and adds nothing to the mailbox, also
\* when the first copy has been acked or swept in between.
C5_StoredAtMostOnce ==
    [][\A to \in Fingerprints, id \in MessageIds :
          (id \in chatLog[to] /\ SendHandled(to, id))
              => (res' = DuplicateSuccess /\ chatMessageStore' = chatMessageStore)]_vars

\* seq without the messages whose id is in ids, the others in their order.
RECURSIVE Without(_, _)
Without(messages, ids) ==
    IF messages = <<>> THEN <<>>
    ELSE IF \E i \in 1..Len(ids) : ids[i] = Head(messages).id
         THEN Without(Tail(messages), ids)
         ELSE <<Head(messages)>> \o Without(Tail(messages), ids)

\* The mailbox of fp in a message store.
MailboxIn(store, fp) == IF fp \in DOMAIN store THEN store[fp] ELSE <<>>

\* The request r is an ack frame on a chat socket.
IsSocketAck(r) ==
    /\ r.op = "ws message"
    /\ sockets[r.socket].kind = "chat"
    /\ r.data.json
    /\ {"type", "messageIds"} \subseteq DOMAIN r.data.value
    /\ r.data.value.type = "ack"
    /\ r.data.value.messageIds # NotArray

\* C6: an ack for fp with ids, over HTTP or over fp's chat socket, removes
\* from fp's mailbox exactly the messages whose id is in ids and keeps the
\* others in their order, leaves every other mailbox unchanged and removes
\* fp's key when the mailbox becomes empty; absent ids and a missing mailbox
\* are no-ops.
C6_AckExact ==
    [][(req'.op = "ack" \/ IsSocketAck(req')) =>
       LET fp == IF req'.op = "ack" THEN req'.fp ELSE sockets[req'.socket].key
           ids == IF req'.op = "ack" THEN req'.ids
                  ELSE req'.data.value.messageIds
           left == Without(Mailbox(fp), ids)
       IN  /\ \A other \in Fingerprints \ {fp} :
                 /\ other \in DOMAIN chatMessageStore'
                       <=> other \in DOMAIN chatMessageStore
                 /\ MailboxIn(chatMessageStore', other) = Mailbox(other)
           /\ MailboxIn(chatMessageStore', fp) = left
           /\ fp \in DOMAIN chatMessageStore' <=> left # <<>>
           /\ (\A i \in 1..Len(ids) :
                  \A k \in 1..Len(Mailbox(fp)) : Mailbox(fp)[k].id # ids[i])
                 => chatMessageStore' = chatMessageStore]_vars

\* C6 witness: an ack over the chat socket took the middle one of three
\* messages out of fpB's mailbox; the other two are left in their order.
C6_Witness ==
    /\ req.op = "ws message"
    /\ req.data = Json([type |-> "ack", messageIds |-> <<"m2">>])
    /\ chatLog["fpB"] = {"m1", "m2", "m3"}
    /\ IdsOf(Mailbox("fpB")) = <<"m1", "m3">>

\* Socket s is a member of the room with id r.
MemberOf(s, r) == r \in DOMAIN rooms /\ s \in rooms[r].clients

\* A frame arrives from socket s, a member of room r.
FrameFrom(s, r, frame) ==
    /\ MemberOf(s, r)
    /\ req' = [op |-> "ws message", socket |-> s, binary |-> frame.binary,
               data |-> frame.data]

\* A text frame of the control shape for room r.
ControlShape(frame, r) ==
    /\ ~frame.binary
    /\ frame.data.json
    /\ {"type", "action", "roomId"} \subseteq DOMAIN frame.data.value
    /\ frame.data.value.type = "control"
    /\ frame.data.value.action = "burnRoom"
    /\ frame.data.value.roomId = r

\* C7 (burned for good): the burned set only grows.
C7_Monotonic == burnedRooms \subseteq burnedRooms'

\* C7 (later joins): a connection that names a burned roomId is added to no
\* room; dispatched as a room join (it has no chatFingerprint) it is sent
\* roomDestroyed and closed.
C7_LaterJoin ==
    req'.op = "ws connect" =>
    \A s \in SocketIds, r \in RoomIds, fp \in {Null} \cup Fingerprints :
        (/\ r \in burnedRooms
         /\ req' = [op |-> "ws connect", socket |-> s, roomId |-> r,
                    chatFingerprint |-> fp])
            => /\ rooms' = rooms
               /\ fp = Null
                    => /\ wsOut' = (s :> <<DestroyMsg(r)>>)
                       /\ sockets'[s].readyState # 1
                       /\ sockets'[s].closing = "server"

\* C7 (no room): no burned id is the id of a room in the registry.
C7_NoRoom == burnedRooms \cap DOMAIN rooms = {}

\* C7: a burned roomId stays burned; every later join with it is sent
\* roomDestroyed and closed without being added to a room, and no room with
\* that id is in the registry in any later state.
C7_BurnedForGood == []C7_NoRoom /\ [][C7_Monotonic /\ C7_LaterJoin]_vars

\* C7 witness: a join with a burned roomId was sent roomDestroyed and closed.
C7_Witness ==
    /\ req.op = "ws connect"
    /\ req.roomId \in burnedRooms
    /\ req.chatFingerprint = Null
    /\ wsOut = (req.socket :> <<DestroyMsg(req.roomId)>>)
    /\ sockets[req.socket].readyState = 2

\* C8 as stated: the burn sends roomDestroyed to every current member.
C8_EveryMember ==
    [][\A s \in SocketIds, r \in RoomIds :
          FrameFrom(s, r, TextFrame(BurnFrame(r)))
              => wsOut' = [c \in rooms[r].clients |-> <<DestroyMsg(r)>>]]_vars

\* C8 (amended): the burn of room r sends roomDestroyed to every current
\* member whose socket is open, the sender included, closes the socket of
\* every member, and removes the room from the registry in the same step.
C8_Burn ==
    [][req'.op = "ws message" =>
       \A s \in SocketIds, r \in RoomIds :
          FrameFrom(s, r, TextFrame(BurnFrame(r)))
              => /\ wsOut' = [c \in {m \in rooms[r].clients :
                                       sockets[m].readyState = 1}
                                |-> <<DestroyMsg(r)>>]
                 /\ sockets[s].readyState = 1 => s \in DOMAIN wsOut'
                 /\ \A c \in rooms[r].clients : sockets'[c].readyState \in {2, 3}
                 /\ r \notin DOMAIN rooms'
                 /\ r \in burnedRooms']_vars

\* C8 witness: a burn in a room of two open members and one whose socket is
\* closing: the open ones were sent roomDestroyed, all three are closing and
\* the room is gone.
C8_Witness ==
    /\ req.op = "ws message"
    /\ req.data = BurnFrame("r1")
    /\ ~req.binary
    /\ DOMAIN wsOut = {1, 2}
    /\ wsOut[1] = <<DestroyMsg("r1")>>
    /\ DOMAIN sockets = {1, 2, 3}
    /\ \A c \in {1, 2} : sockets[c] = [readyState |-> 2, kind |-> "room",
                                       key |-> "r1", closing |-> "server"]
    /\ sockets[3] = [readyState |-> 2, kind |-> "room", key |-> "r1",
                     closing |-> "peer"]
    /\ "r1" \notin DOMAIN rooms

\* C9 (only the control frame): a room id enters the burned set only in a
\* step in which a member of that room sends the control frame for it.
C9_OnlyControl ==
    \A r \in RoomIds :
        (r \in burnedRooms' /\ r \notin burnedRooms)
            => \E s \in SocketIds :
                  /\ MemberOf(s, r)
                  /\ req'.op = "ws message"
                  /\ req'.socket = s
                  /\ ControlShape(req', r)

\* C9 (everything else): any other text frame and any binary frame of a
\* member burns nothing, closes nothing, and is sent on as it came.
C9_OtherFrames ==
    req'.op = "ws message" =>
    \A s \in SocketIds, r \in RoomIds, frame \in RoomFrames :
        (FrameFrom(s, r, frame) /\ ~ControlShape(frame, r))
            => /\ burnedRooms' = burnedRooms
               /\ rooms' = rooms
               /\ sockets' = sockets
               /\ \A c \in DOMAIN wsOut' : wsOut'[c] = <<frame>>
               /\ \A c \in rooms[r].clients \ {s} :
                     sockets[c].readyState = 1 => c \in DOMAIN wsOut'

\* C9: only a text frame of a member that parses as {type:"control",
\* action:"burnRoom", roomId: own room} burns; unparsable text, other JSON, a
\* burnRoom naming another room and every binary frame burn nothing and are
\* relayed to the other members.
C9_OnlyControlBurns == [][C9_OnlyControl /\ C9_OtherFrames]_vars

\* C9 witness: a burnRoom frame naming another room was relayed to the other
\* member and burned nothing.
C9_Witness ==
    /\ req = [op |-> "ws message", socket |-> 1, binary |-> FALSE,
              data |-> BurnFrame("r2")]
    /\ MemberOf(1, "r1")
    /\ wsOut = (2 :> <<TextFrame(BurnFrame("r2"))>>)
    /\ burnedRooms = {}

\* C10: a relayed text or binary frame of a member of room r is delivered to
\* exactly the other members of r whose socket is open: not to the sender,
\* not to a socket of another room, not to a chat socket.
C10_RelayTargets ==
    [][req'.op = "ws message" =>
       \A s \in SocketIds, r \in RoomIds, frame \in RoomFrames :
          (FrameFrom(s, r, frame) /\ ~ControlShape(frame, r))
              => /\ DOMAIN wsOut' = {c \in DOMAIN sockets :
                                       /\ c # s
                                       /\ MemberOf(c, r)
                                       /\ sockets[c].readyState = 1}
                 /\ s \notin DOMAIN wsOut'
                 /\ \A c \in DOMAIN wsOut' :
                       sockets[c].kind = "room" /\ sockets[c].key = r]_vars

\* C10 witness: a binary frame of a member of r1 reached the other member of
\* r1 and not the open socket of r2.
C10_Witness ==
    /\ req = [op |-> "ws message", socket |-> 1, binary |-> TRUE,
              data |-> Opaque("hello")]
    /\ MemberOf(1, "r1") /\ MemberOf(2, "r1") /\ MemberOf(3, "r2")
    /\ sockets[3].readyState = 1
    /\ wsOut = (2 :> <<BinaryFrame(Opaque("hello"))>>)

\* The presence frame for room r with `count` members, as it is on the wire.
PresenceOnWire(r, count) ==
    [binary |-> FALSE,
     data |-> [json |-> TRUE,
               value |-> [type |-> "presence", roomId |-> r, count |-> count]]]

\* Socket s joins room r: a connection with that roomId, no chatFingerprint,
\* and r not burned.
Joins(s, r) ==
    /\ r \notin burnedRooms
    /\ req' = [op |-> "ws connect", socket |-> s, roomId |-> r,
               chatFingerprint |-> Null]

\* Member s of room r leaves and someone is left.
LeavesOthers(s, r) ==
    /\ MemberOf(s, r)
    /\ rooms[r].clients # {s}
    /\ req' = [op |-> "ws close", socket |-> s]

\* C11 as stated: on a join and on a leave that leaves someone, the presence
\* frame goes to the current members, all of them.
C11_AllMembers ==
    [][req'.op \in {"ws connect", "ws close"} =>
       \A s \in SocketIds, r \in RoomIds :
          (Joins(s, r) \/ LeavesOthers(s, r))
              => DOMAIN wsOut' = rooms'[r].clients]_vars

\* C11 (amended): on every join, and on every leave that leaves at least one
\* member, a presence frame is sent to every current member whose socket is
\* open, and its count is the number of members of the room at that moment:
\* the joiner counted, the leaver not.
C11_Presence ==
    [][req'.op \in {"ws connect", "ws close"} =>
       \A s \in SocketIds, r \in RoomIds :
          /\ Joins(s, r)
                => LET before == IF r \in DOMAIN rooms THEN rooms[r].clients
                                 ELSE {}
                   IN  /\ rooms'[r].clients = before \cup {s}
                       /\ s \in DOMAIN wsOut'
                       /\ wsOut' = [c \in {m \in before \cup {s} :
                                             sockets'[m].readyState = 1}
                                      |-> <<PresenceOnWire(r,
                                               Cardinality(before) + 1)>>]
          /\ LeavesOthers(s, r)
                => LET left == rooms[r].clients \ {s}
                   IN  /\ rooms'[r].clients = left
                       /\ wsOut' = [c \in {m \in left :
                                             sockets'[m].readyState = 1}
                                      |-> <<PresenceOnWire(r, Cardinality(left))>>]]_vars

\* C11 witness: the second of three members has left; the two that are left
\* were told count 2.
C11_Witness ==
    /\ req = [op |-> "ws close", socket |-> 2]
    /\ "r1" \in DOMAIN rooms
    /\ rooms["r1"].clients = {1, 3}
    /\ wsOut = [c \in {1, 3} |-> <<PresenceOnWire("r1", 2)>>]

\* C12 (pending timer): a room with a pending destruction timeout is in the
\* registry and has no member.
C12_PendingIsEmpty ==
    \A r \in DOMAIN timers : r \in DOMAIN rooms /\ rooms[r].clients = {}

\* C12 (steps): the leave of the last member keeps the room and arms one
\* timeout due 5000 ms later; a join leaves no timeout pending for its room;
\* the timeout deletes the room, not before it is due and only while the room
\* has no member; nothing else takes the room out of the registry.
C12_Steps ==
    \A r \in RoomIds :
        /\ (\E s \in SocketIds : /\ MemberOf(s, r)
                                 /\ rooms[r].clients = {s}
                                 /\ req' = [op |-> "ws close", socket |-> s])
              => /\ r \notin DOMAIN timers
                 /\ r \in DOMAIN rooms' /\ rooms'[r].clients = {}
                 /\ r \in DOMAIN timers' /\ timers'[r] = now + 5000
        /\ (\E s \in SocketIds : Joins(s, r))
              => r \notin DOMAIN timers' /\ r \in DOMAIN rooms'
        /\ req' = [op |-> "timeout", roomId |-> r]
              => /\ r \in DOMAIN rooms /\ rooms[r].clients = {}
                 /\ now >= timers[r]
                 /\ r \notin DOMAIN rooms'
        /\ (r \in DOMAIN rooms /\ r \notin DOMAIN rooms')
              => req' = [op |-> "timeout", roomId |-> r]

\* C12 (the timeout comes): a timeout that is due does not stay pending; it
\* deletes the room unless a join cancels it first.
C12_DueFires ==
    \A r \in RoomIds :
        (r \in DOMAIN timers /\ now >= timers[r]) ~> (r \notin DOMAIN timers)

\* C12: when the last member leaves, the room stays in the registry and is
\* deleted by the timeout 5 s later if no join arrives in between; a join
\* that arrives before the timeout runs cancels it, so the timeout never
\* deletes a room that has a member.
C12_DelayedDestruction ==
    []C12_PendingIsEmpty /\ [][C12_Steps]_vars /\ C12_DueFires

\* C12 witness: room r1, left by its two members at time 0, was deleted by
\* its timeout at 5000 ms.
C12_Witness ==
    /\ req = [op |-> "timeout", roomId |-> "r1"]
    /\ now = 5000
    /\ "r1" \notin DOMAIN rooms
    /\ totals["rooms_created"] = 1
    /\ DOMAIN sockets = {1, 2}
    /\ \A s \in {1, 2} : sockets[s] = Closed

\* The counter a request at time t finds in `buckets`: 0 when it opens a
\* window (no bucket, or the bucket's window is over), the stored one inside
\* the window.
Found(buckets, ip, field, t) ==
    IF ip \in DOMAIN buckets /\ t - buckets[ip].windowStart < RATE_WINDOW_MS
    THEN buckets[ip][field] ELSE 0

\* The instant at which the window ends is left to C14.
Settled(buckets, ip, t) ==
    ip \in DOMAIN buckets => t - buckets[ip].windowStart # RATE_WINDOW_MS

\* One step seen from the counter `field` of one limiter, whose requests are
\* `ops` and whose limiter also serves `siblings`: a request of the kind
\* finds c earlier ones in its window, is counted, and is admitted exactly
\* when c < max; a sibling request leaves the counter alone or, opening a
\* window, zeroes it; no other step touches the bucket.
RateStep(old, new, field, max, ops, siblings) ==
    \A ip \in IPs :
       LET c == Found(old, ip, field, now) IN
       IF req'.op \in ops
       THEN Settled(old, ip, now)
            => /\ ip \in DOMAIN new
               /\ new[ip][field] = c + 1
               /\ new[ip].windowStart =
                      IF ip \in DOMAIN old
                         /\ now - old[ip].windowStart < RATE_WINDOW_MS
                      THEN old[ip].windowStart ELSE now
               /\ (res' = RateLimited) <=> (c >= max)
       ELSE IF req'.op \in siblings
       THEN Settled(old, ip, now)
            => ip \in DOMAIN new /\ new[ip][field] = c
       ELSE new = old

\* C13 (N per window): within one window each IP's requests of one action are
\* counted from 1, the first N of them (30 POST /otm, 60 GET /otm, 10 uploads,
\* 30 downloads, 10 invite creates or claims, 60 message sends) get past the
\* limiter and every further one is answered 429; requests of another action
\* do not use up the action's allowance.
C13_Counted ==
    /\ RateStep(rateBuckets, rateBuckets', "postCount",
                MAX_POST_OTM_PER_WINDOW, {"POST /otm"}, {"GET /otm/{id}"})
    /\ RateStep(rateBuckets, rateBuckets', "getCount",
                MAX_GET_OTM_PER_WINDOW, {"GET /otm/{id}"}, {"POST /otm"})
    /\ RateStep(fileRateBuckets, fileRateBuckets', "uploadCount",
                MAX_POST_FILE_PER_WINDOW, {"POST /file"}, {"GET /file/{id}"})
    /\ RateStep(fileRateBuckets, fileRateBuckets', "downloadCount",
                MAX_GET_FILE_PER_WINDOW, {"GET /file/{id}"}, {"POST /file"})
    /\ RateStep(chatRateBuckets, chatRateBuckets', "inviteCount",
                MAX_CHAT_INVITE_PER_WINDOW,
                {"POST /chat/invite", "POST /chat/invite/{id}/claim"},
                {"POST /chat/message"})
    /\ RateStep(chatRateBuckets, chatRateBuckets', "messageCount",
                MAX_CHAT_MESSAGE_PER_WINDOW, {"POST /chat/message"},
                {"POST /chat/invite", "POST /chat/invite/{id}/claim"})

C13_FirstNAdmitted == [][C13_Counted]_vars

\* The request after the thirtieth POST /otm of a window has been answered
\* 429, inside the window.
C13_Witness ==
    /\ req = [op |-> "POST /otm", ip |-> "ip1"]
    /\ res = RateLimited
    /\ "ip1" \in DOMAIN rateBuckets
    /\ rateBuckets["ip1"].postCount = MAX_POST_OTM_PER_WINDOW + 1
    /\ now - rateBuckets["ip1"].windowStart < RATE_WINDOW_MS


\* A request of `ops` from an IP whose bucket is `age` or more old opens a
\* window: windowStart is the request's time, the request is the first one
\* counted, the limiter's other counter is zero and the answer is not 429.
FreshWindow(old, new, field, other, ops, age) ==
    \A ip \in IPs :
       /\ req'.op \in ops
       /\ ip \in DOMAIN old
       /\ now - old[ip].windowStart >= age
       => /\ new[ip].windowStart = now
          /\ new[ip][field] = 1
          /\ new[ip][other] = 0
          /\ res' # RateLimited

FreshWindows(age) ==
    /\ FreshWindow(rateBuckets, rateBuckets', "postCount", "getCount",
                   {"POST /otm"}, age)
    /\ FreshWindow(rateBuckets, rateBuckets', "getCount", "postCount",
                   {"GET /otm/{id}"}, age)
    /\ FreshWindow(fileRateBuckets, fileRateBuckets', "uploadCount",
                   "downloadCount", {"POST /file"}, age)
    /\ FreshWindow(fileRateBuckets, fileRateBuckets', "downloadCount",
                   "uploadCount", {"GET /file/{id}"}, age)
    /\ FreshWindow(chatRateBuckets, chatRateBuckets', "inviteCount",
                   "messageCount",
                   {"POST /chat/invite", "POST /chat/invite/{id}/claim"}, age)
    /\ FreshWindow(chatRateBuckets, chatRateBuckets', "messageCount",
                   "inviteCount", {"POST /chat/message"}, age)

\* C14 (window of exactly 60 s): a request that arrives 60 000 ms or more
\* after windowStart starts a fresh window with the limiter's counters at zero
\* and is admitted, even when the window before it was exhausted.
C14_FreshAtSixty == [][FreshWindows(RATE_WINDOW_MS)]_vars


\* What a GET that got past the limiter does to an entry of a one-time store
\* once the entry is older than its TTL, and what the store's sweeper does
\* to the entries that are not.
ExpiredIsGone(store, new, get, sweep, ttl) ==
    /\ /\ req'.op = get
       /\ res' # RateLimited
       /\ req'.id \in DOMAIN store
       => IF now - store[req'.id].createdAt > ttl
          THEN res' = Used /\ req'.id \notin DOMAIN new
          ELSE res'.status = 200
    /\ req'.op = sweep
       => \A id \in DOMAIN store :
             now - store[id].createdAt <= ttl
             => id \in DOMAIN new /\ new[id] = store[id]

\* C15 (TTL on read): a GET on an OTM entry older than 7 days, or on a file
\* entry older than 24 h, answers 404 {used:true} and deletes the entry,
\* whether the sweeper has run or not; only younger entries are returned, and
\* the sweeper removes no entry that is still within its TTL.
C15_Expiry ==
    /\ ExpiredIsGone(otmStore, otmStore', "GET /otm/{id}", "sweep otm", OTM_TTL_MS)
    /\ ExpiredIsGone(fileStore, fileStore', "GET /file/{id}", "sweep file",
                     FILE_TTL_MS)

C16_Sweep ==
    req'.op = "sweep invite"
    => \A id \in DOMAIN chatInviteStore :
          id \notin DOMAIN chatInviteStore'
          => now > chatInviteStore[id].expiresAt

C16_SweptOnlyPastExpiresAt == [][C16_Sweep]_vars


\* C17 (claimed iff bundle): every stored invite has claimed = true exactly
\* when its claimerBundle is not null.
C17_ClaimedIffBundle ==
    \A id \in DOMAIN chatInviteStore :
        chatInviteStore[id].claimed <=> chatInviteStore[id].claimerBundle # Null

\* C17 (immutable once claimed): as long as a claimed entry stays in the
\* store it stays claimed and keeps its claimerBundle and its creator bundle,
\* whatever request is handled.
C17_Frozen ==
    \A id \in DOMAIN chatInviteStore \cap DOMAIN chatInviteStore' :
        chatInviteStore[id].claimed
        => /\ chatInviteStore'[id].claimed
           /\ chatInviteStore'[id].claimerBundle = chatInviteStore[id].claimerBundle
           /\ chatInviteStore'[id].publicKeyBundle = chatInviteStore[id].publicKeyBundle

C17_ClaimedIsImmutable == []C17_ClaimedIffBundle /\ [][C17_Frozen]_vars

\* A create with the id of an entry claimed with C1 has been answered 409 and
\* the entry still holds C1 and the creator's K1.
C17_Witness ==
    /\ req = [op |-> "POST /chat/invite", id |-> "inv1", ip |-> "ip1"]
    /\ res.status = 409
    /\ "inv1" \in DOMAIN chatInviteStore
    /\ chatInviteStore["inv1"].claimed
    /\ chatInviteStore["inv1"].claimerBundle = "C1"
    /\ chatInviteStore["inv1"].publicKeyBundle = "K1"

\* C18 (duplicate create): a POST /chat/invite whose inviteId is already in
\* the store leaves the store and every total unchanged; unless it is over
\* the rate limit (429) or lacks its publicKeyBundle (400) it is answered
\* 409.
C18_Duplicate ==
    /\ req'.op = "POST /chat/invite"
    /\ req'.id \in DOMAIN chatInviteStore
    => /\ chatInviteStore' = chatInviteStore
       /\ totals' = totals
       /\ inviteLog' = inviteLog
       /\ res' \in {RateLimited,
                    [status |-> 400,
                     body |-> [error |-> "Missing inviteId or publicKeyBundle"]],
                    [status |-> 409,
                     body |-> [error |-> "Invite ID already exists"]]}

C18_DuplicateCreate == [][C18_Duplicate]_vars

\* A second create of inv2 has been answered 409: one invite is counted and
\* the entry is the one created first.
C18_Witness ==
    /\ req = [op |-> "POST /chat/invite", id |-> "inv2", ip |-> "ip1"]
    /\ res = [status |-> 409, body |-> [error |-> "Invite ID already exists"]]
    /\ totals["chat_invites_created"] = 1
    /\ DOMAIN chatInviteStore = {"inv2"}
    /\ chatInviteStore["inv2"].createdAt = 0
    /\ now = 1


\* The message m is in the sequence.
Holds(messages, m) == \E k \in 1..Len(messages) : messages[k] = m

\* C19 (enqueue, then push): a send answered 201 appends the message to the
\* recipient's mailbox and, if the recipient's registered chat socket is
\* open, sends that socket exactly one newMessage frame with the id, from and
\* payload of the stored message; nobody else is sent anything.
C19_Enqueue ==
    (req'.op = "POST /chat/message" /\ res'.status = 201)
    => LET fp == req'.to
           after == MailboxIn(chatMessageStore', fp)
           m == after[Len(after)]
       IN  /\ after = Append(Mailbox(fp), m)
           /\ m.id = req'.id
           /\ m.timestamp = now
           /\ wsOut' =
                 IF /\ fp \in DOMAIN chatConnections
                    /\ sockets[chatConnections[fp]].readyState = 1
                 THEN [s \in {chatConnections[fp]} |->
                        <<TextFrame(Json([type |-> "newMessage",
                                          message |-> [id |-> m.id,
                                                       from |-> m.from,
                                                       payload |-> m.payload]]))>>]
                 ELSE NoFrames

\* C19 (the push does not dequeue): a message leaves a mailbox only by an ack
\* of its id for that recipient, over HTTP or over a chat socket of the
\* recipient, or by the sweeper once it is 7 days old.
C19_Stays ==
    \A fp \in DOMAIN chatMessageStore :
       \A i \in 1..Len(chatMessageStore[fp]) :
          LET m == chatMessageStore[fp][i] IN
          ~Holds(MailboxIn(chatMessageStore', fp), m)
          => \/ /\ req'.op = "ack"
                /\ req'.fp = fp
                /\ Includes(req'.ids, m.id)
             \/ /\ IsSocketAck(req')
                /\ sockets[req'.socket].key = fp
                /\ Includes(req'.data.value.messageIds, m.id)
             \/ /\ req'.op = "sweep chat"
                /\ now - m.timestamp >= CHAT_MESSAGE_TTL_MS

\* C19 (fetch): a fetch returns, in order, every message of the mailbox that
\* is less than 7 days old, pushed or not, and removes nothing.
C19_Fetch ==
    req'.op = "GET /chat/messages/{fp}"
    => /\ chatMessageStore' = chatMessageStore
       /\ res'.status = 200
       /\ res'.body.messages =
             SelectSeq(Mailbox(req'.fp),
                       LAMBDA m : now - m.timestamp < CHAT_MESSAGE_TTL_MS)

C19_PushKeepsMessage == [][C19_Enqueue /\ C19_Stays /\ C19_Fetch]_vars

\* m2 has been enqueued behind m1 and pushed to socket 2, the socket
\* registered for fpB; m1, pushed earlier, is still in the mailbox and
\* socket 1, which socket 2 replaced, got nothing.
C19_Witness ==
    /\ req = [op |-> "POST /chat/message", to |-> "fpB", id |-> "m2", ip |-> "ip1"]
    /\ res.status = 201
    /\ DOMAIN sockets = {1, 2}
    /\ sockets[1].readyState = 1
    /\ chatConnections = [fp \in {"fpB"} |-> 2]
    /\ DOMAIN wsOut = {2}
    /\ wsOut[2] = <<NewMessageFrame([id |-> "m2", from |-> "fpA", payload |-> "E1"])>>
    /\ IdsOf(Mailbox("fpB")) = <<"m1", "m2">>


\* The chat sockets registered for fp that are not closed yet.
LiveFor(fp) ==
    {s \in DOMAIN sockets : /\ sockets[s].kind = "chat"
                            /\ sockets[s].key = fp
                            /\ sockets[s].readyState \in {1, 2}}

\* C20 (one live socket per fingerprint): the live map holds for a
\* fingerprint at most one socket; it is a socket registered for that
\* fingerprint that has not closed, and the one registered last among those
\* (connections are numbered in the order they are accepted).
C20_Latest ==
    \A fp \in DOMAIN chatConnections :
       /\ chatConnections[fp] \in LiveFor(fp)
       /\ \A s \in LiveFor(fp) : s <= chatConnections[fp]

\* C20 (steps): a registration for fp maps fp to the new socket, replacing
\* an older one; the close of the mapped socket removes the entry; the close
\* of a socket that has been replaced, like every other step, leaves the map
\* as it is.
C20_Steps ==
    IF req'.op = "ws connect" /\ req'.chatFingerprint # Null
    THEN /\ DOMAIN chatConnections' = DOMAIN chatConnections \cup {req'.chatFingerprint}
         /\ \A fp \in DOMAIN chatConnections' :
               chatConnections'[fp] =
                  IF fp = req'.chatFingerprint THEN req'.socket
                  ELSE chatConnections[fp]
    ELSE IF /\ req'.op = "ws close"
            /\ \E fp \in DOMAIN chatConnections :
                  chatConnections[fp] = req'.socket
    THEN /\ DOMAIN chatConnections' =
               {fp \in DOMAIN chatConnections : chatConnections[fp] # req'.socket}
         /\ \A fp \in DOMAIN chatConnections' :
               chatConnections'[fp] = chatConnections[fp]
    ELSE chatConnections' = chatConnections

C20_LiveMap == []C20_Latest /\ [][C20_Steps]_vars

\* Socket 1 has just closed; socket 2, registered for fpA after it, is open
\* and still mapped; socket 3, registered last, has closed and has no entry.
C20_Witness ==
    /\ req = [op |-> "ws close", socket |-> 1]
    /\ DOMAIN sockets = {1, 2, 3}
    /\ sockets[2].kind = "chat" /\ sockets[2].key = "fpA"
    /\ sockets[2].readyState = 1
    /\ sockets[3] = Closed
    /\ chatConnections = [fp \in {"fpA"} |-> 2]

\* A GET of a one-time store that got past the limiter answers the same
\* 404 {used:true} in each of the three cases in which it returns nothing:
\* the id was never issued, the entry has been read, the entry is past its TTL.
SameRefusal(store, log, get, ttl) ==
    (req'.op = get /\ res' # RateLimited)
    => LET id == req'.id
           never == id \notin DOMAIN log
           consumed == id \in DOMAIN log /\ id \notin DOMAIN store
           expired == id \in DOMAIN store /\ now - store[id].createdAt > ttl
       IN  /\ never \/ consumed \/ expired => res' = Used
           /\ res'.status # 200 => res' = Used

\* C21 (one refusal): GET /otm/{id} and GET /file/{id} answer an id that was
\* never created, one that was consumed and one that expired with the same
\* response, 404 {used:true}.
C21_Same ==
    /\ SameRefusal(otmStore, otmLog, "GET /otm/{id}", OTM_TTL_MS)
    /\ SameRefusal(fileStore, fileLog, "GET /file/{id}", FILE_TTL_MS)

C22_Fetch ==
    /\ req'.op = "GET /chat/messages/{fp}"
       => /\ res'.status = 200
          /\ res'.body.messages =
                SelectSeq(Mailbox(req'.fp),
                          LAMBDA m : now - m.timestamp < CHAT_MESSAGE_TTL_MS)
          /\ UNCHANGED <<chatMessageStore, otmStore, fileStore, chatInviteStore,
                         totals>>
    /\ (req'.op = "POST /chat/message" /\ res'.status = 201)
       => \E m \in {MailboxIn(chatMessageStore', req'.to)[
                       Len(MailboxIn(chatMessageStore', req'.to))]} :
             /\ MailboxIn(chatMessageStore', req'.to) = Append(Mailbox(req'.to), m)
             /\ m.timestamp = now

\* C22 (order): in every mailbox the timestamps never decrease along the
\* sequence, whatever sends, acks and sweeps have happened.
C22_Sorted ==
    \A fp \in DOMAIN chatMessageStore :
       \A i, j \in 1..Len(chatMessageStore[fp]) :
          i < j => chatMessageStore[fp][i].timestamp
                      <= chatMessageStore[fp][j].timestamp

C22_FetchUnexpiredInOrder == []C22_Sorted /\ [][C22_Fetch]_vars

\* A fetch has returned the younger of fpB's two messages: the older one is
\* 7 days old and still in the mailbox, the sweeper has not run.
C22_Witness ==
    /\ req = [op |-> "GET /chat/messages/{fp}", fp |-> "fpB"]
    /\ now = CHAT_MESSAGE_TTL_MS
    /\ Len(Mailbox("fpB")) = 2
    /\ Mailbox("fpB")[1].timestamp = 0
    /\ Mailbox("fpB")[2].timestamp = 1
    /\ res.body.messages = <<Mailbox("fpB")[2]>>

\* C23 (registry): a room is in the registry exactly when it has a member or
\* its destruction timeout is pending, and a timeout is pending only for a
\* room of the registry that has no member.
C23_Registry ==
    \A r \in RoomIds :
       /\ r \in DOMAIN rooms => (rooms[r].clients # {} \/ r \in DOMAIN timers)
       /\ r \in DOMAIN timers => (r \in DOMAIN rooms /\ rooms[r].clients = {})

\* C23 (arming): a timeout becomes pending only in the close of the room's
\* last member; it stops being pending only by a join of the room or by its
\* own callback; after a join of a room no timeout is pending for it.
C23_Arming ==
    \A r \in RoomIds :
       /\ (r \notin DOMAIN timers /\ r \in DOMAIN timers')
          => /\ req'.op = "ws close"
             /\ r \in DOMAIN rooms
             /\ rooms[r].clients = {req'.socket}
       /\ (r \in DOMAIN timers /\ r \notin DOMAIN timers')
          => \/ req' = [op |-> "timeout", roomId |-> r]
             \/ \E s \in SocketIds : Joins(s, r)
       /\ (\E s \in SocketIds : Joins(s, r)) => r \notin DOMAIN timers'

C23_RoomIffMemberOrTimer == []C23_Registry /\ [][C23_Arming]_vars

\* Socket 2 has joined r1 while the timeout armed by the leave of socket 1
\* was pending: the room is the one created first and no timeout is pending.
C23_Witness ==
    /\ req = [op |-> "ws connect", socket |-> 2, roomId |-> "r1",
              chatFingerprint |-> Null]
    /\ sockets[1] = Closed
    /\ rooms = [r \in {"r1"} |-> [clients |-> {2}, timer |-> "timeout"]]
    /\ timers = EmptyMap
    /\ totals["rooms_created"] = 1

\* C24 (best effort push and totals): a send that reaches the enqueue is
\* answered 201 {success:true} with the message appended to the recipient's
\* mailbox, whether or not the frame went out and whether or not the total
\* was incremented; and every creation (OTM, file, invite) is answered 201
\* with its entry stored even when the totals query failed.
C24_Push ==
    (req'.op = "POST /chat/message" /\ chatLog' # chatLog)
    => /\ res' = [status |-> 201, body |-> [success |-> TRUE]]
       /\ req'.to \in DOMAIN chatMessageStore'
       /\ LET box == chatMessageStore'[req'.to]
          IN /\ Len(box) = Len(Mailbox(req'.to)) + 1
             /\ SubSeq(box, 1, Len(box) - 1) = Mailbox(req'.to)
             /\ box[Len(box)].id = req'.id
             /\ box[Len(box)].timestamp = now

C24_Creation ==
    /\ (req'.op = "POST /otm" /\ DOMAIN otmLog' # DOMAIN otmLog)
       => /\ res'.status = 201
          /\ DOMAIN otmStore' = DOMAIN otmStore \cup (DOMAIN otmLog' \ DOMAIN otmLog)
    /\ (req'.op = "POST /file" /\ DOMAIN fileLog' # DOMAIN fileLog)
       => /\ res'.status = 201
          /\ DOMAIN fileStore' = DOMAIN fileStore \cup (DOMAIN fileLog' \ DOMAIN fileLog)
    /\ (req'.op = "POST /chat/invite" /\ DOMAIN inviteLog' # DOMAIN inviteLog)
       => /\ res'.status = 201
          /\ req'.id \in DOMAIN chatInviteStore'

C24_BestEffort == [][C24_Push /\ C24_Creation]_vars

\* The recipient's socket is open, the push failed and so did the totals
\* query: the send was answered 201 and the message is in the mailbox.
C24_Witness ==
    /\ req.op = "POST /chat/message"
    /\ PushTarget(req.to) # {}
    /\ wsOut = NoFrames
    /\ totals["chat_messages_sent"] = 0
    /\ res = [status |-> 201, body |-> [success |-> TRUE]]
    /\ HasMessage(Mailbox(req.to), req.id)

\* C25 (a rate check touches only its own bucket): a request changes only
\* the bucket of its own client in the map of its own family, the buckets of
\* the other clients and the maps of the other two families stay as they
\* were, and it is answered 429 exactly when the counter its own bucket held
\* for this kind of request had reached the threshold, whatever the other
\* buckets hold.
Entry(buckets, ip) == IF ip \in DOMAIN buckets THEN {buckets[ip]} ELSE {}

C25_Otm ==
    req'.op = "POST /otm"
    => /\ fileRateBuckets' = fileRateBuckets /\ chatRateBuckets' = chatRateBuckets
       /\ \A other \in RateIPs \ {req'.ip} :
             Entry(rateBuckets', other) = Entry(rateBuckets, other)
       /\ Entry(rateBuckets', req'.ip) # Entry(rateBuckets, req'.ip)
       /\ res'.status = 429
          <=> Counter(rateBuckets, req'.ip, RATE_WINDOW_MS, "postCount")
                 >= MAX_POST_OTM_PER_WINDOW

C25_File ==
    req'.op = "GET /file/{id}"
    => /\ rateBuckets' = rateBuckets /\ chatRateBuckets' = chatRateBuckets
       /\ \A other \in RateIPs \ {req'.ip} :
             Entry(fileRateBuckets', other) = Entry(fileRateBuckets, other)
       /\ Entry(fileRateBuckets', req'.ip) # Entry(fileRateBuckets, req'.ip)
       /\ res'.status = 429
          <=> Counter(fileRateBuckets, req'.ip, FILE_RATE_WINDOW_MS,
                      "downloadCount") >= MAX_GET_FILE_PER_WINDOW

C25_Chat ==
    req'.op = "POST /chat/message"
    => /\ rateBuckets' = rateBuckets /\ fileRateBuckets' = fileRateBuckets
       /\ \A other \in RateIPs \ {req'.ip} :
             Entry(chatRateBuckets', other) = Entry(chatRateBuckets, other)
       /\ Entry(chatRateBuckets', req'.ip) # Entry(chatRateBuckets, req'.ip)
       /\ res'.status = 429
          <=> Counter(chatRateBuckets, req'.ip, CHAT_RATE_WINDOW_MS,
                      "messageCount") >= MAX_CHAT_MESSAGE_PER_WINDOW

C25_OwnBucketOnly == [][C25_Otm /\ C25_File /\ C25_Chat]_vars

\* ip1 has exhausted its chat messages; ip2's first chat message has just
\* got past the limiter, and so has a POST /otm of ip1.
C25_Witness ==
    /\ req.op = "POST /chat/message" /\ req.ip = "ip2" /\ res = InvalidJson
    /\ "ip1" \in DOMAIN chatRateBuckets /\ "ip2" \in DOMAIN chatRateBuckets
    /\ chatRateBuckets["ip1"].messageCount > MAX_CHAT_MESSAGE_PER_WINDOW
    /\ chatRateBuckets["ip2"].messageCount = 1
    /\ "ip1" \in DOMAIN rateBuckets
    /\ rateBuckets["ip1"].postCount = 1

\* C26 (body caps as stated): a request body is destroyed exactly when its
\* accumulated length exceeds the stated cap of its route: OTM 1 048 576,
\* invite and claim 102 400, ack 51 200, chat message 512 000, file
\* 12 582 912; up to the cap it is not destroyed.
C26_CapsAsStated ==
    LET stated == [r \in BodyRoutes |->
                     CASE r = "POST /otm" -> 1048576
                       [] r = "POST /chat/invite" -> 102400
                       [] r = "POST /chat/invite/{id}/claim" -> 102400
                       [] r = "POST /chat/messages/ack" -> 51200
                       [] r = "POST /chat/message" -> 512000
                       [] r = "POST /file" -> 12582912]
    IN  req.op = "data" => (res = Destroyed <=> req.length > stated[req.route])

\* C27 (totals count creations): with the sink configured and every query
\* succeeding, a step adds one to otm_created exactly when it is a POST /otm
\* answered 201, to files_created exactly when it is a POST /file answered
\* 201, to chat_invites_created exactly when it is an invite create answered
\* 201, to chat_messages_sent exactly when it is a send answered 201 (the
\* enqueue of a message the duplicate test did not find), to rooms_created
\* exactly when it is a join of a room that was not in the registry; no
\* other step changes a total, and no total ever decreases.
Bump(field, event) ==
    totals'[field] = totals[field] + (IF event THEN 1 ELSE 0)

C27_Counts ==
    /\ Bump("otm_created", req'.op = "POST /otm" /\ res'.status = 201)
    /\ Bump("files_created", req'.op = "POST /file" /\ res'.status = 201)
    /\ Bump("chat_invites_created",
            req'.op = "POST /chat/invite" /\ res'.status = 201)
    /\ Bump("chat_messages_sent",
            req'.op = "POST /chat/message" /\ res'.status = 201)
    /\ Bump("rooms_created",
            /\ req'.op = "ws connect"
            /\ req'.roomId \notin DOMAIN rooms
            /\ req'.roomId \in DOMAIN rooms')

\* Each total is the number of entries ever created.
C27_Sums ==
    /\ totals["otm_created"] = Cardinality(DOMAIN otmLog)
    /\ totals["files_created"] = Cardinality(DOMAIN fileLog)

C27_TotalsCountCreations == []C27_Sums /\ [][C27_Counts]_vars

\* A retry of a message still in the mailbox has just been answered as a
\* duplicate: the message was counted once, when it was enqueued.
C27_Witness ==
    /\ req.op = "POST /chat/message"
    /\ res = [status |-> 200, body |-> [success |-> TRUE, duplicate |-> TRUE]]
    /\ Len(Mailbox(req.to)) = 1
    /\ HasMessage(Mailbox(req.to), req.id)
    /\ totals["chat_messages_sent"] = 1

\* C28 (rejections change nothing): a request answered 400 or 429 leaves the
\* OTM store, the file store, the invite store and every mailbox as they
\* were, sends no frame to any socket and changes no total.
C28_Rejected ==
    res'.status \in {400, 429}
    => /\ otmStore' = otmStore
       /\ fileStore' = fileStore
       /\ chatInviteStore' = chatInviteStore
       /\ chatMessageStore' = chatMessageStore
       /\ wsOut' = NoFrames
       /\ totals' = totals

C28_RejectionsChangeNothing == [][C28_Rejected]_vars

\* An ack without a messageIds array has just been answered 400 while the
\* recipient's mailbox holds a message and their socket is open.
C28_Witness ==
    /\ req = [op |-> "POST /chat/messages/ack"]
    /\ res.status = 400
    /\ Len(Mailbox("fpB")) >= 1
    /\ PushTarget("fpB") # {}
    /\ totals["chat_messages_sent"] >= 1

\* C29 (an expired entry still blocks its id): a POST /chat/invite whose
\* inviteId belongs to an entry that is past its expiresAt and still in the
\* store leaves the store as it was and, unless it is over the rate limit
\* (429) or malformed (400), is answered 409; a create is answered 201 only
\* for an id that is not in the store, and an id leaves the store only in a
\* sweep, a get or a claim.
C29_Blocked ==
    (/\ req'.op = "POST /chat/invite"
     /\ req'.id \in DOMAIN chatInviteStore
     /\ now > chatInviteStore[req'.id].expiresAt)
    => /\ chatInviteStore' = chatInviteStore
       /\ res'.status \in {409, 400, 429}
       /\ res'.status = 409
          => res'.body = [error |-> "Invite ID already exists"]

C29_Creatable ==
    (req'.op = "POST /chat/invite" /\ res'.status = 201)
    => /\ req'.id \notin DOMAIN chatInviteStore
       /\ req'.id \in DOMAIN chatInviteStore'

C29_Removed ==
    \A id \in InviteIds :
       (id \in DOMAIN chatInviteStore /\ id \notin DOMAIN chatInviteStore')
       => req'.op \in {"sweep invite", "GET /chat/invite/{id}",
                       "POST /chat/invite/{id}/claim"}

C29_ExpiredEntryBlocks ==
    [][C29_Blocked /\ C29_Creatable /\ C29_Removed]_vars

\* A create of inv1 has just been answered 409 although the entry of inv1 is
\* past its expiresAt: the entry is still the one created at the start.
C29_Witness ==
    /\ req.op = "POST /chat/invite" /\ req.id = "inv1"
    /\ res = [status |-> 409, body |-> [error |-> "Invite ID already exists"]]
    /\ "inv1" \in DOMAIN chatInviteStore
    /\ now > chatInviteStore["inv1"].expiresAt
    /\ chatInviteStore["inv1"].createdAt = 0

====
